---- MODULE Spec2Model ----
(***************************************************************************)
(* The reconciliation engine of reconcile/openshift_base.py: the current   *)
(* state fetch, the per-cell realize pass (_realize_resource_data), the    *)
(* provider-apply recovery of apply(), delete(), and the run wrapper of    *)
(* openshift_clusterrolebindings.run.                                      *)
(***************************************************************************)
EXTENDS Integers, Sequences, FiniteSets, TLC

VARIABLES
    args,     \* the arguments of realize_data, fixed for the run
    env,      \* the clusters' side: client resolution, namespace, the failures
              \* the provider answers with
    ri,       \* the ResourceInventory: error flags and cells
    live,     \* the objects on the clusters, per cell and name
    pc,       \* per cell: the position of the worker that processes it
    actions,  \* per cell: the Action list _realize_resource_data builds
    calls,    \* the provider calls of the latest step, in order
    last,     \* the latest step: its cell, name and pass, the function it
              \* called (apply or delete) and what that raised
    run,      \* the number of the current run of the integration
    hist,     \* the exit status of this run (-1 while it runs) and of the run
              \* before, and whether the run before returned any Action
    fs,       \* init_specs_to_fetch and fetch_current_state: the input, the
              \* state specs, the specs populate_current_state has taken
    logs,     \* follow_logs: the Action list, the position in it, the files
              \* written to io_dir and what the call ended with
    crb,      \* openshift_clusterrolebindings.fetch_desired_state: the roles,
              \* the position in them and what the function returns
    val       \* validate_data under its retry wrapper: the Action list, the
              \* attempt, the position in the list, the object read, the result

vars == <<args, env, ri, live, pc, actions, calls, last, run, hist, fs, val,
          logs, crb>>

-----------------------------------------------------------------------------
(* Bounds *)

\* bodies are the documents 1..MaxBody
MaxBody == 3
\* the digest space of the content hash: MaxBody > HashMod makes two bodies collide
HashMod == 2
\* the integration is run at most this many times in a row
MaxRuns == 2

Bodies == 1..MaxBody
Names == <<"n1", "n2">>
NameSet == {Names[i] : i \in 1..Len(Names)}
Clusters == {"c1", "c2"}
\* caller: "" stands for None
Callers == {"", "X", "Y"}
Kinds == {"ConfigMap", "Service", "Secret", "Route", "StatefulSet"}

-----------------------------------------------------------------------------
(* OpenshiftResource (reconcile/utils/openshift_resource.py) *)

\* no item under a name (dict.get returns None)
NoItem == [body |-> 0, annot |-> FALSE, sha |-> 0, caller |-> "", owner |-> FALSE]

\* a desired item as the integration builds it: no annotations yet
Desired(b, caller) ==
    [body |-> b, annot |-> FALSE, sha |-> 0, caller |-> caller, owner |-> FALSE]

\* canonicalize: the body without the provenance annotations and the
\* server-managed fields
Canonicalize(r) == r.body

\* calculate_sha256sum over the serialized canonical body
Hash(b) == b % HashMod

\* sha256sum(): the hash of the item's own canonical body
sha256sum(r) == Hash(Canonicalize(r))

\* has_qontract_annotations()
has_qontract_annotations(r) == r.annot

\* has_valid_sha256sum(): the stored hash is the hash of the body as it is now
has_valid_sha256sum(r) == r.annot /\ r.sha = sha256sum(r)

\* d_item == c_item: equality of the canonical bodies
ItemEq(d, c) == Canonicalize(d) = Canonicalize(c)

\* has_owner_reference()
has_owner_reference(r) == r.owner

\* annotate(): the body with integration, hash and caller annotations
annotate(r) ==
    [body |-> r.body, annot |-> TRUE, sha |-> sha256sum(r),
     caller |-> r.caller, owner |-> FALSE]

-----------------------------------------------------------------------------
(* ResourceInventory (reconcile/utils/openshift_resource.py) *)

\* register_error(cluster=None): the global flag, and the cluster's flag
register_error(r, cluster) ==
    [r EXCEPT !.err = TRUE,
              !.err_clusters = IF cluster = "" THEN @ ELSE @ \cup {cluster}]

\* has_error_registered(cluster=None)
has_error_registered(r, cluster) ==
    IF cluster = "" THEN r.err ELSE cluster \in r.err_clusters

CellIds(r) == DOMAIN r.cells

NoItems == [n \in NameSet |-> NoItem]

\* the names of a mapping in iteration order
Keys(m) == SelectSeq(Names, LAMBDA n : m[n] # NoItem)

-----------------------------------------------------------------------------
(* The provider client (reconcile/utils/oc.py), seen through its calls *)

\* the typed failures of oc.apply that apply() recovers from, and the rest
UpdateErrors ==
    {"InvalidValueApplyError", "FieldIsImmutableError",
     "MayNotChangeOnceSetError", "PrimaryClusterIPCanNotBeUnsetError",
     "StatefulSetUpdateForbidden"}
ApplyErrors ==
    UpdateErrors \cup
    {"MetaDataAnnotationsTooLongApplyError", "UnsupportedMediaTypeError",
     "StatusCodeError"}

\* a variant of the realize pass that catches nothing
C23_MutIsStatusCodeError(e) == FALSE

\* the errors the realize pass catches with `except StatusCodeError`
IsStatusCodeError(e) == e \in ApplyErrors

\* what the provider answers to the calls of one apply() or delete():
\* first to the first oc.apply, r1..r3 to the calls that follow, nswait to
\* the polls of wait_for_namespace_exists
Outcomes == {"ok", "StatusCodeError"}

\* the answers to an apply that is made again: it can fail as the first did
RetryOutcomes == Outcomes \cup {"InvalidValueApplyError"}
Scripts ==
    [first : {"ok"} \cup ApplyErrors, r1 : Outcomes, r2 : RetryOutcomes,
     r3 : Outcomes, nswait : BOOLEAN]

\* one provider call, as the client sees it
Call(op, ns, kind, name, res) ==
    [op |-> op, ns |-> ns, kind |-> kind, name |-> name, res |-> res,
     cascade |-> TRUE, pvcs |-> {}, size |-> 0]

MutatingOps ==
    {"apply", "create", "replace", "delete",
     "remove_last_applied_configuration", "resize_pvcs"}

\* get_storage(resource): the storage size a StatefulSet body asks for
get_storage(b) == b \div 2

\* get_pod_owned_pvc_names(get_owned_pods(...)): the claims of the pods the
\* object on the cluster owns
owned_pvc_names(cur, name) == IF cur = NoItem THEN {} ELSE {name}

\* the result of a call sequence: the calls, what was raised ("" for a
\* normal return) and the object left on the cluster
Result(cs, raised, obj) == [calls |-> cs, raised |-> raised, obj |-> obj]

-----------------------------------------------------------------------------
(* apply(), create path and recovery (openshift_base.py, 257-333) *)

\* mutant: a retry that fails is recovered from once more
C27_MutRecoverInvalidValue(ns, kind, name, a, cur, s, c0) ==
    LET rm == Call("remove_last_applied_configuration", ns, kind, name, s.r1)
        ap == Call("apply", ns, kind, name, s.r2)
        ap2 == Call("apply", ns, kind, name, "ok")
    IN  IF s.r1 # "ok" THEN Result(<<c0, rm>>, s.r1, cur)
        ELSE IF s.r2 # "ok" THEN Result(<<c0, rm, ap, rm, ap2>>, "", a)
        ELSE Result(<<c0, rm, ap>>, "", a)

\* except InvalidValueApplyError: strip the annotation, apply again
RecoverInvalidValue(ns, kind, name, a, cur, s, c0) ==
    LET rm == Call("remove_last_applied_configuration", ns, kind, name, s.r1)
        ap == Call("apply", ns, kind, name, s.r2)
    IN  IF s.r1 # "ok" THEN Result(<<c0, rm>>, s.r1, cur)
        ELSE IF s.r2 # "ok" THEN Result(<<c0, rm, ap>>, s.r2, cur)
        ELSE Result(<<c0, rm, ap>>, "", a)

\* except (MetaDataAnnotationsTooLongApplyError, UnsupportedMediaTypeError):
\* create when oc.get finds nothing, then replace
RecoverTooLong(ns, kind, name, a, cur, s, c0) ==
    LET cr == Call("create", ns, kind, name, s.r1)
        rp1 == Call("replace", ns, kind, name, s.r1)
        rp2 == Call("replace", ns, kind, name, s.r2)
    IN  IF cur = NoItem
        THEN IF s.r1 # "ok" THEN Result(<<c0, cr>>, s.r1, cur)
             ELSE IF s.r2 # "ok" THEN Result(<<c0, cr, rp2>>, s.r2, a)
             ELSE Result(<<c0, cr, rp2>>, "", a)
        ELSE IF s.r1 # "ok" THEN Result(<<c0, rp1>>, s.r1, cur)
             ELSE Result(<<c0, rp1>>, "", a)

\* mutant: the resource is applied first and deleted after
C10_MutDeleteAndApply(ns, kind, name, a, cur, s, c0, cascade) ==
    LET de == [Call("delete", ns, kind, name, s.r1) EXCEPT !.cascade = cascade]
        ap == Call("apply", ns, kind, name, s.r2)
    IN  IF s.r2 # "ok" THEN Result(<<c0, ap>>, s.r2, cur)
        ELSE IF s.r1 # "ok" THEN Result(<<c0, ap, de>>, s.r1, a)
        ELSE Result(<<c0, ap, de>>, "", NoItem)

\* oc.delete followed by oc.apply of the annotated resource
DeleteAndApply(ns, kind, name, a, cur, s, c0, cascade) ==
    LET de == [Call("delete", ns, kind, name, s.r1) EXCEPT !.cascade = cascade]
        ap == Call("apply", ns, kind, name, s.r2)
    IN  IF s.r1 # "ok" THEN Result(<<c0, de>>, s.r1, cur)
        ELSE IF s.r2 # "ok" THEN Result(<<c0, de, ap>>, s.r2, NoItem)
        ELSE Result(<<c0, de, ap>>, "", a)

\* the kinds the delete-and-apply recovery of an immutable field is allowed for
ImmutableKinds == {"Route", "Service", "Secret"}

\* mutant: the delete-and-apply recovery is open to every kind
C11_MutRecoverImmutable(ns, kind, name, a, cur, s, c0) ==
    DeleteAndApply(ns, kind, name, a, cur, s, c0, TRUE)

\* except FieldIsImmutableError
RecoverImmutable(ns, kind, name, a, cur, s, c0) ==
    IF kind \notin ImmutableKinds
    THEN Result(<<c0>>, c0.res, cur)
    ELSE DeleteAndApply(ns, kind, name, a, cur, s, c0, TRUE)

\* mutant: the recovery is open to the kinds of the immutable-field recovery
C29_MutRecoverMayNotChange(ns, kind, name, a, cur, s, c0) ==
    IF kind \notin ImmutableKinds
    THEN Result(<<c0>>, c0.res, cur)
    ELSE DeleteAndApply(ns, kind, name, a, cur, s, c0, TRUE)

\* except (MayNotChangeOnceSetError, PrimaryClusterIPCanNotBeUnsetError)
RecoverMayNotChange(ns, kind, name, a, cur, s, c0) ==
    IF kind \notin {"Service"}
    THEN Result(<<c0>>, c0.res, cur)
    ELSE DeleteAndApply(ns, kind, name, a, cur, s, c0, TRUE)

\* mutant: the claims are looked up once the StatefulSet is deleted
C30_MutRecoverStatefulSet(ns, kind, name, a, cur, s, c0) ==
    IF kind # "StatefulSet"
    THEN Result(<<c0>>, c0.res, cur)
    ELSE LET desired_storage == get_storage(a.body)
             resize_required == get_storage(cur.body) # desired_storage
             names == owned_pvc_names(NoItem, name)
             cap == [Call("get_owned_pods", ns, kind, name, "ok")
                       EXCEPT !.pvcs = names]
             r0 == DeleteAndApply(ns, kind, name, a, cur, s, c0, FALSE)
             r == IF resize_required
                  THEN [r0 EXCEPT !.calls =
                          <<c0, r0.calls[2], cap>> \o Tail(Tail(@))]
                  ELSE r0
             rs == [Call("resize_pvcs", ns, kind, name, s.r3)
                      EXCEPT !.pvcs = names, !.size = desired_storage]
         IN  IF r.raised # "" \/ ~resize_required THEN r
             ELSE IF s.r3 # "ok" THEN Result(Append(r.calls, rs), s.r3, r.obj)
             ELSE Result(Append(r.calls, rs), "", r.obj)

\* except StatefulSetUpdateForbidden: when the storage size changes, the
\* claims of the owned pods are looked up before the delete
RecoverStatefulSet(ns, kind, name, a, cur, s, c0) ==
    IF kind # "StatefulSet"
    THEN Result(<<c0>>, c0.res, cur)
    ELSE LET desired_storage == get_storage(a.body)
             resize_required == get_storage(cur.body) # desired_storage
             names == owned_pvc_names(cur, name)
             cap == [Call("get_owned_pods", ns, kind, name, "ok")
                       EXCEPT !.pvcs = names]
             r0 == DeleteAndApply(ns, kind, name, a, cur, s, c0, FALSE)
             r == IF resize_required
                  THEN [r0 EXCEPT !.calls = <<c0, cap>> \o Tail(@)]
                  ELSE r0
             rs == [Call("resize_pvcs", ns, kind, name, s.r3)
                      EXCEPT !.pvcs = names, !.size = desired_storage]
         IN  IF r.raised # "" \/ ~resize_required THEN r
             ELSE IF s.r3 # "ok" THEN Result(Append(r.calls, rs), s.r3, r.obj)
             ELSE Result(Append(r.calls, rs), "", r.obj)

\* the try block: oc.apply and the except clauses
TryApply(ns, kind, name, a, cur, s) ==
    LET c0 == Call("apply", ns, kind, name, s.first)
    IN  CASE s.first = "ok" -> Result(<<c0>>, "", a)
          [] s.first = "InvalidValueApplyError" ->
                RecoverInvalidValue(ns, kind, name, a, cur, s, c0)
          [] s.first \in {"MetaDataAnnotationsTooLongApplyError",
                          "UnsupportedMediaTypeError"} ->
                RecoverTooLong(ns, kind, name, a, cur, s, c0)
          [] s.first = "FieldIsImmutableError" ->
                RecoverImmutable(ns, kind, name, a, cur, s, c0)
          [] s.first \in {"MayNotChangeOnceSetError",
                          "PrimaryClusterIPCanNotBeUnsetError"} ->
                RecoverMayNotChange(ns, kind, name, a, cur, s, c0)
          [] s.first = "StatefulSetUpdateForbidden" ->
                RecoverStatefulSet(ns, kind, name, a, cur, s, c0)
          [] OTHER -> Result(<<c0>>, s.first, cur)

\* the namespace is missing and apply() does not go on
NamespaceMissing(dry_run, e, ns) ==
    ~dry_run /\ ns # "cluster" /\ ~e.ns_exists

\* mutant: apply() goes to the provider in a dry run as well
C5_MutApplyDry(dry_run) == FALSE

\* whether the mutating calls of apply() are left out
ApplyDry(dry_run) == dry_run

\* mutant: the pods are recycled only when apply() went to the provider
C31_MutApply(a, e, ns, kind, name, d, cur, privileged, s) ==
    IF ~e.oc_ok[privileged] THEN Result(<<>>, "", cur)
    ELSE IF NamespaceMissing(a.dry_run, e, ns) /\ ~a.wait_for_namespace
         THEN Result(<<>>, "", cur)
    ELSE IF NamespaceMissing(a.dry_run, e, ns) /\ ~s.nswait
         THEN Result(<<>>, "Exception", cur)
    ELSE LET r == IF ApplyDry(a.dry_run) THEN Result(<<>>, "", cur)
                  ELSE TryApply(ns, kind, name, annotate(d), cur, s)
         IN  IF r.raised = "" /\ a.recycle_pods /\ r.calls # <<>>
             THEN [r EXCEPT !.calls =
                      Append(@, Call("recycle_pods", ns, kind, name, "ok"))]
             ELSE r

\* apply(dry_run, oc_map, cluster, namespace, resource_type, resource,
\*       wait_for_namespace, recycle_pods, privileged)
Apply(a, e, ns, kind, name, d, cur, privileged, s) ==
    IF ~e.oc_ok[privileged] THEN Result(<<>>, "", cur)
    ELSE IF NamespaceMissing(a.dry_run, e, ns) /\ ~a.wait_for_namespace
         THEN Result(<<>>, "", cur)
    ELSE IF NamespaceMissing(a.dry_run, e, ns) /\ ~s.nswait
         THEN Result(<<>>, "Exception", cur)
    ELSE LET r == IF ApplyDry(a.dry_run) THEN Result(<<>>, "", cur)
                  ELSE TryApply(ns, kind, name, annotate(d), cur, s)
         IN  IF r.raised = "" /\ a.recycle_pods
             THEN [r EXCEPT !.calls =
                      Append(@, Call("recycle_pods", ns, kind, name, "ok"))]
             ELSE r

\* the namespace came into being while apply() waited for it
Waited(a, e, ns, privileged, s) ==
    e.oc_ok[privileged] /\ NamespaceMissing(a.dry_run, e, ns)
    /\ a.wait_for_namespace /\ s.nswait

\* the answers the provider can give to this apply(): a failure of an
\* update needs an object to update; an answer to a call that is never made
\* is left at its default
ApplyScripts(e, cur, waiting) ==
    {s \in Scripts :
        /\ s.first \in {"ok"} \cup e.faults
        /\ s.first \in UpdateErrors => cur # NoItem
        /\ s.first \in {"ok", "StatusCodeError"} => s.r1 = "ok"
        /\ s.r1 # "ok" => s.r2 = "ok"
        /\ s.r2 = "InvalidValueApplyError" => s.first = "InvalidValueApplyError"
        /\ s.first # "StatefulSetUpdateForbidden" \/ s.r2 # "ok" => s.r3 = "ok"
        /\ ~waiting => ~s.nswait}

\* the answers the provider can give to this delete()
DeleteScripts ==
    {s \in Scripts : /\ s.first \in Outcomes
                     /\ s.r1 = "ok" /\ s.r2 = "ok" /\ s.r3 = "ok"
                     /\ ~s.nswait}

\* delete(dry_run, oc_map, cluster, namespace, resource_type, name,
\*        enable_deletion, privileged)
Delete(a, e, ns, kind, name, cur, enable_deletion, privileged, s) ==
    IF ~enable_deletion THEN Result(<<>>, "", cur)
    ELSE IF ~e.oc_ok[privileged] THEN Result(<<>>, "", cur)
    ELSE IF a.dry_run THEN Result(<<>>, "", cur)
    ELSE IF s.first # "ok"
         THEN Result(<<Call("delete", ns, kind, name, "StatusCodeError")>>,
                     "StatusCodeError", cur)
         ELSE Result(<<Call("delete", ns, kind, name, "ok")>>, "", NoItem)

-----------------------------------------------------------------------------
(* _realize_resource_data (openshift_base.py, 374-515): the decisions *)

\* mutant: the flag is looked up under the namespace, not under the cluster
C1_MutSkipCell(r, cluster) == has_error_registered(r, "ns")

\* mutant: an error of any cluster skips the cell
C18_MutSkipCell(r, cluster) == has_error_registered(r, "")

\* the cell is skipped: its cluster has an error registered
SkipCell(r, cluster) == has_error_registered(r, cluster)

\* mutant: an override of True turns deletion on whatever is registered
C4_MutEnableDeletion(r, override) ==
    LET enable_deletion == ~has_error_registered(r, "")
    IN  IF override = "True" THEN TRUE
        ELSE IF enable_deletion /\ override = "False" THEN FALSE
        ELSE enable_deletion

\* mutant: deletion is never enabled
C6_MutEnableDeletion(r, override) == FALSE

\* enable_deletion: off with any registered error; the override only turns
\* it off
EnableDeletion(r, override) ==
    LET enable_deletion == ~has_error_registered(r, "")
    IN  IF enable_deletion /\ override = "False" THEN FALSE
        ELSE enable_deletion

\* mutant: without the equality fast path
C7_MutNeedsApply(a, d, c) ==
    IF c = NoItem THEN TRUE
    ELSE IF ~a.dry_run /\ a.no_dry_run_skip_compare THEN TRUE
    ELSE IF ~has_qontract_annotations(c) THEN TRUE
    ELSE IF sha256sum(c) = sha256sum(d) THEN ~has_valid_sha256sum(c)
    ELSE TRUE

\* mutant: matching hashes never skip the apply
C8_MutNeedsApply(a, d, c) ==
    IF c = NoItem THEN TRUE
    ELSE IF ~a.dry_run /\ a.no_dry_run_skip_compare THEN TRUE
    ELSE IF ~has_qontract_annotations(c) THEN TRUE
    ELSE IF ~(a.caller # "" /\ a.take_over) /\ ItemEq(d, c) THEN FALSE
    ELSE TRUE

\* mutant: with the compare skipped, a desired item that has a current item
\* is passed over
C24_MutNeedsApply(a, d, c) ==
    IF c = NoItem THEN TRUE
    ELSE IF ~a.dry_run /\ a.no_dry_run_skip_compare THEN FALSE
    ELSE IF ~has_qontract_annotations(c) THEN TRUE
    ELSE IF ~(a.caller # "" /\ a.take_over) /\ ItemEq(d, c) THEN FALSE
    ELSE IF sha256sum(c) = sha256sum(d) THEN ~has_valid_sha256sum(c)
    ELSE TRUE

\* mutant: the equality fast path is taken whatever caller and take_over are
C25_MutNeedsApply(a, d, c) ==
    IF c = NoItem THEN TRUE
    ELSE IF ~a.dry_run /\ a.no_dry_run_skip_compare THEN TRUE
    ELSE IF ~has_qontract_annotations(c) THEN TRUE
    ELSE IF ItemEq(d, c) THEN FALSE
    ELSE IF sha256sum(c) = sha256sum(d) THEN ~has_valid_sha256sum(c)
    ELSE TRUE

\* mutant: a desired item with no current item is passed over
C9_MutNeedsApply(a, d, c) ==
    IF c = NoItem THEN FALSE
    ELSE IF ~a.dry_run /\ a.no_dry_run_skip_compare THEN TRUE
    ELSE IF ~has_qontract_annotations(c) THEN TRUE
    ELSE IF ~(a.caller # "" /\ a.take_over) /\ ItemEq(d, c) THEN FALSE
    ELSE IF sha256sum(c) = sha256sum(d) THEN ~has_valid_sha256sum(c)
    ELSE TRUE

\* the desired-side chain: whether a desired item is applied
NeedsApply(a, d, c) ==
    IF c = NoItem THEN TRUE
    ELSE IF ~a.dry_run /\ a.no_dry_run_skip_compare THEN TRUE
    ELSE IF ~has_qontract_annotations(c) THEN TRUE
    ELSE IF ~(a.caller # "" /\ a.take_over) /\ ItemEq(d, c) THEN FALSE
    ELSE IF sha256sum(c) = sha256sum(d) THEN ~has_valid_sha256sum(c)
    ELSE TRUE

\* mutant: the owner reference of a current item is not looked at
C26_MutDeletable(a, c) ==
    /\ has_qontract_annotations(c) => ~(a.caller # "" /\ c.caller # a.caller)
    /\ has_qontract_annotations(c) \/ a.take_over

\* mutant: the recorded caller of an annotated item is not looked at
C3_MutDeletable(a, c) ==
    /\ has_qontract_annotations(c) \/ a.take_over
    /\ ~has_owner_reference(c)

\* mutant: an item without annotations is deleted without a take-over
C2_MutDeletable(a, c) ==
    /\ has_qontract_annotations(c) => ~(a.caller # "" /\ c.caller # a.caller)
    /\ ~has_owner_reference(c)

\* the current-side chain: whether delete() is called on a current item
\* that has no desired item
Deletable(a, c) ==
    /\ IF has_qontract_annotations(c)
       THEN ~(a.caller # "" /\ c.caller # a.caller)
       ELSE a.take_over
    /\ ~has_owner_reference(c)

Action(what, cell, name) ==
    [action |-> what, cluster |-> cell.cluster, namespace |-> cell.namespace,
     kind |-> cell.kind, name |-> name,
     privileged |-> cell.use_admin_token[name]]

\* the position after the names of the desired mapping, then of the
\* current mapping, one after the other
\* err0 records has_error_registered() as the pass read it when it started
Pos(phase, i, ed, err0) ==
    [phase |-> phase, i |-> i, enable_deletion |-> ed, err0 |-> err0]

\* mutant: the loop over the current mapping runs first
C15_MutNextPos(cell, p) ==
    IF p.phase = "desired" /\ p.i = 0 /\ Len(Keys(cell.current)) > 0
    THEN Pos("current", 1, p.enable_deletion, p.err0)
    ELSE IF p.phase = "current" /\ p.i < Len(Keys(cell.current))
    THEN Pos("current", p.i + 1, p.enable_deletion, p.err0)
    ELSE IF p.phase = "current" /\ Len(Keys(cell.desired)) > 0
    THEN Pos("desired", 1, p.enable_deletion, p.err0)
    ELSE IF p.phase = "desired" /\ p.i < Len(Keys(cell.desired))
    THEN Pos("desired", p.i + 1, p.enable_deletion, p.err0)
    ELSE Pos("done", 0, p.enable_deletion, p.err0)

NextPos(cell, p) ==
    IF p.phase = "desired" /\ p.i < Len(Keys(cell.desired))
    THEN Pos("desired", p.i + 1, p.enable_deletion, p.err0)
    ELSE IF p.phase = "desired" /\ Len(Keys(cell.current)) > 0
    THEN Pos("current", 1, p.enable_deletion, p.err0)
    ELSE IF p.phase = "current" /\ p.i < Len(Keys(cell.current))
    THEN Pos("current", p.i + 1, p.enable_deletion, p.err0)
    ELSE Pos("done", 0, p.enable_deletion, p.err0)

-----------------------------------------------------------------------------
(* The steps *)

\* the record of a step: op is the function the step called, "" for none
Step(c, name, pass, op, raised) ==
    [cell |-> c, name |-> name, pass |-> pass, op |-> op, raised |-> raised,
     log |-> <<>>]

\* the message logging.error gets when apply() raised: str(e) stands for the
\* provider's error text, which a Secret's message replaces
ApplyErrorLog(cell, name, raised) ==
    IF ~IsStatusCodeError(raised) THEN <<>>
    ELSE LET err == IF cell.kind # "Secret" THEN <<"str(e)", raised>>
                    ELSE <<"error applying Secret", name, "REDACTED">>
         IN  <<cell.cluster, cell.namespace>> \o err \o <<"error_details">>

\* the message logging.error gets when delete() raised
DeleteErrorLog(cell, raised) ==
    IF raised = "" THEN <<>>
    ELSE <<cell.cluster, cell.namespace, "str(e)", raised>>

\* populate_current_state(spec, ri, ...) for the cell's "current" spec
Fetch(c) ==
    /\ pc[c].phase = "fetch"
    /\ LET cell == ri.cells[c]
       IN \E o \in Outcomes :
            /\ calls' = <<Call("get_items", cell.namespace, cell.kind, "", o)>>
            /\ ri' = IF o = "ok"
                     THEN [ri EXCEPT !.cells[c].current = live[c]]
                     ELSE register_error(ri, cell.cluster)
    /\ pc' = [pc EXCEPT ![c] = Pos("ready", 0, FALSE, FALSE)]
    /\ last' = Step(c, "", "fetch", "", "")
    /\ UNCHANGED <<logs, crb, fs, val, args, env, live, actions, run, hist>>

\* _realize_resource_data, up to the loops: the cluster check and
\* enable_deletion. threaded.run starts it once the fetch is over.
RealizeStart(c) ==
    /\ pc[c].phase = "ready"
    /\ \A c2 \in CellIds(ri) : pc[c2].phase # "fetch"
    /\ LET cell == ri.cells[c]
           ed == EnableDeletion(ri, args.override_enable_deletion)
       IN  pc' = [pc EXCEPT ![c] =
                    IF SkipCell(ri, cell.cluster)
                    THEN Pos("done", 0, FALSE, has_error_registered(ri, ""))
                    ELSE NextPos(cell, Pos("desired", 0, ed,
                                           has_error_registered(ri, "")))]
    /\ calls' = <<>>
    /\ last' = Step(c, "", "start", "", "")
    /\ UNCHANGED <<logs, crb, fs, val, args, env, ri, live, actions, run, hist>>

\* one turn of the loop over data['desired']
DesiredStep(c) ==
    /\ pc[c].phase = "desired"
    /\ LET cell == ri.cells[c]
           name == Keys(cell.desired)[pc[c].i]
           d_item == cell.desired[name]
           c_item == cell.current[name]
           privileged == cell.use_admin_token[name]
       IN  /\ IF ~NeedsApply(args, d_item, c_item)
              THEN /\ calls' = <<>>
                   /\ last' = Step(c, name, "desired", "", "")
                   /\ pc' = [pc EXCEPT ![c] = NextPos(cell, @)]
                   /\ UNCHANGED <<env, ri, live, actions>>
              ELSE \E s \in ApplyScripts(env, live[c][name],
                                         NamespaceMissing(args.dry_run,
                                                          env, cell.namespace)) :
                     LET r == Apply(args, env, cell.namespace, cell.kind, name,
                                    d_item, live[c][name], privileged, s)
                     IN  /\ calls' = r.calls
                         /\ last' = [Step(c, name, "desired", "apply",
                                           r.raised)
                                        EXCEPT !.log = ApplyErrorLog(
                                                 cell, name, r.raised)]
                         /\ live' = [live EXCEPT ![c][name] = r.obj]
                         /\ env' = IF Waited(args, env, cell.namespace,
                                             privileged, s)
                                   THEN [env EXCEPT !.ns_exists = TRUE]
                                   ELSE env
                         /\ actions' =
                              IF r.raised = ""
                              THEN [actions EXCEPT ![c] =
                                      Append(@, Action("applied", cell, name))]
                              ELSE actions
                         /\ ri' = IF IsStatusCodeError(r.raised)
                                  THEN register_error(ri, "")
                                  ELSE ri
                         /\ pc' = [pc EXCEPT ![c] =
                                     IF r.raised = "" \/ IsStatusCodeError(r.raised)
                                     THEN NextPos(cell, @)
                                     ELSE Pos("crashed", 0, FALSE, @.err0)]
    /\ UNCHANGED <<logs, crb, fs, val, args, run, hist>>

\* one turn of the loop over data['current']
CurrentStep(c) ==
    /\ pc[c].phase = "current"
    /\ LET cell == ri.cells[c]
           name == Keys(cell.current)[pc[c].i]
           c_item == cell.current[name]
           privileged == cell.use_admin_token[name]
       IN  /\ pc' = [pc EXCEPT ![c] = NextPos(cell, @)]
           /\ IF cell.desired[name] # NoItem \/ ~Deletable(args, c_item)
              THEN /\ calls' = <<>>
                   /\ last' = Step(c, name, "current", "", "")
                   /\ UNCHANGED <<ri, live, actions>>
              ELSE \E s \in DeleteScripts :
                     LET r == Delete(args, env, cell.namespace, cell.kind,
                                     name, live[c][name],
                                     pc[c].enable_deletion, privileged, s)
                     IN  /\ calls' = r.calls
                         /\ last' = [Step(c, name, "current", "delete",
                                           r.raised)
                                        EXCEPT !.log = DeleteErrorLog(
                                                 cell, r.raised)]
                         /\ live' = [live EXCEPT ![c][name] = r.obj]
                         /\ actions' =
                              IF r.raised = ""
                              THEN [actions EXCEPT ![c] =
                                      Append(@, Action("deleted", cell, name))]
                              ELSE actions
                         /\ ri' = IF r.raised = "" THEN ri
                                  ELSE register_error(ri, "")
    /\ UNCHANGED <<logs, crb, fs, val, args, env, run, hist>>


\* a fresh ResourceInventory after init_specs_to_fetch and the integration's
\* fetch_desired_state: every cell initialized, no current item yet; the
\* global error flag is set when init_specs_to_fetch could not resolve the
\* client of some other cluster
NewInventory(cells, init_err) ==
    [err |-> init_err, err_clusters |-> {},
     cells |-> [c \in DOMAIN cells |-> [cells[c] EXCEPT !.current = NoItems]]]

Finished(c) == pc[c].phase \in {"done", "crashed"}

\* mutant: run() exits as soon as one cell is over
C16_MutRunEnd ==
    /\ hist.exit = -1
    /\ \E c \in CellIds(ri) : Finished(c)
    /\ hist' = [hist EXCEPT !.exit =
                  IF ri.err \/ \E c \in CellIds(ri) : pc[c].phase = "crashed"
                  THEN 1 ELSE 0]
    /\ calls' = <<>>
    /\ last' = Step(0, "", "exit", "", "")
    /\ UNCHANGED <<logs, crb, fs, val, args, env, ri, live, pc, actions, run>>

\* the end of run(): sys.exit(1) with an error registered; an exception that
\* left a worker ends the run with a failure as well
RunEnd ==
    /\ hist.exit = -1
    /\ \A c \in CellIds(ri) : Finished(c)
    /\ hist' = [hist EXCEPT !.exit =
                  IF ri.err \/ \E c \in CellIds(ri) : pc[c].phase = "crashed"
                  THEN 1 ELSE 0]
    /\ calls' = <<>>
    /\ last' = Step(0, "", "exit", "", "")
    /\ UNCHANGED <<logs, crb, fs, val, args, env, ri, live, pc, actions, run>>

\* the integration is run again, with the same arguments and desired state,
\* on the clusters as the run before left them
NextRun ==
    /\ hist.exit # -1
    /\ run < MaxRuns
    /\ run' = run + 1
    /\ hist' = [exit |-> -1, prev |-> hist.exit,
                 acted |-> \E c \in CellIds(ri) : actions[c] # <<>>]
    /\ ri' = NewInventory(ri.cells, env.init_err)
    /\ pc' = [c \in CellIds(ri) |-> Pos("fetch", 0, FALSE, FALSE)]
    /\ actions' = [c \in CellIds(ri) |-> <<>>]
    /\ calls' = <<>>
    /\ last' = Step(0, "", "run", "", "")
    /\ UNCHANGED <<logs, crb, fs, val, args, env, live>>

\* one run of the integration
OneRun ==
    \/ \E c \in CellIds(ri) : Fetch(c)
    \/ \E c \in CellIds(ri) : RealizeStart(c)
    \/ \E c \in CellIds(ri) : DesiredStep(c)
    \/ \E c \in CellIds(ri) : CurrentStep(c)
    \/ RunEnd

\* runs of the integration, one after the other
Next ==
    \/ OneRun
    \/ NextRun

-----------------------------------------------------------------------------
(* The inputs *)

\* the arguments of realize_data
ArgSet(dry, over, callers, skip, overrides, waits, recycles) ==
    [dry_run : dry, take_over : over, caller : callers,
     no_dry_run_skip_compare : skip, override_enable_deletion : overrides,
     wait_for_namespace : waits, recycle_pods : recycles]

Overrides == {"None", "True", "False"}

\* objects found on a cluster under a name that is not desired: the
\* current-side pass reads their annotations, caller and owner reference
Orphans ==
    {[body |-> 1, annot |-> FALSE, sha |-> 0, caller |-> "", owner |-> ow] :
        ow \in BOOLEAN}
    \cup
    {[body |-> 1, annot |-> TRUE, sha |-> Hash(1), caller |-> ca, owner |-> ow] :
        ca \in {"X", "Y"}, ow \in BOOLEAN}

\* objects found on a cluster under a desired name: the desired-side pass
\* reads their annotations, body and stored hash
Found ==
    {[body |-> b, annot |-> FALSE, sha |-> 0, caller |-> "", owner |-> FALSE] :
        b \in Bodies}
    \cup
    {[body |-> b, annot |-> TRUE, sha |-> h, caller |-> "X", owner |-> FALSE] :
        b \in Bodies, h \in 0..(HashMod - 1)}

\* a name of a cell: its desired item and the object on the cluster
Pairs(caller) ==
    {[d |-> NoItem, l |-> l] : l \in {NoItem} \cup Orphans}
    \cup
    {[d |-> Desired(1, caller), l |-> l] : l \in {NoItem} \cup Found}

\* a name that is neither desired nor on the cluster
Unused == {[d |-> NoItem, l |-> NoItem]}

CellOf(cluster, namespace, kind, first, second, admin) ==
    [cluster |-> cluster, namespace |-> namespace, kind |-> kind,
     current |-> NoItems,
     desired |-> [n \in NameSet |-> IF n = Names[1] THEN first.d ELSE second.d],
     use_admin_token |-> [n \in NameSet |-> admin]]

LiveOf(first, second) ==
    [n \in NameSet |-> IF n = Names[1] THEN first.l ELSE second.l]

\* the specifications of the realize pass take the inventory as
\* fetch_current_state built it and do not validate
NoFetch == [mode |-> "none"]
NoValidation == [result |-> "none"]
\* follow_logs, fetch_desired_state: not called
NotCalled == [result |-> "none"]
\* a bot without openshift_serviceaccount
NoSA == [namespace |-> "", sa_name |-> ""]

\* the run starts with the inventory of init_specs_to_fetch; cellset gives,
\* for the caller of the run, the cells and the objects on the clusters
Start(argset, envset, cellset) ==
    /\ args \in argset
    /\ env \in envset
    /\ \E w \in cellset[args.caller] :
         /\ ri = NewInventory(w.cells, env.init_err)
         /\ live = w.live
         /\ pc = [c \in DOMAIN w.cells |-> Pos("fetch", 0, FALSE, FALSE)]
         /\ actions = [c \in DOMAIN w.cells |-> <<>>]
    /\ calls = <<>>
    /\ last = Step(0, "", "run", "", "")
    /\ run = 1
    /\ hist = [exit |-> -1, prev |-> -1, acted |-> FALSE]
    /\ fs = NoFetch
    /\ val = NoValidation
    /\ logs = NotCalled /\ crb = NotCalled

\* the provider clients: every client resolves, or the privileged one
\* does not
AllOk == [p \in BOOLEAN |-> TRUE]
NoAdmin == [p \in BOOLEAN |-> ~p]

EnvSet(ocs, nss, errs, faults) ==
    [oc_ok : ocs, ns_exists : nss, init_err : errs, faults : faults]

\* one cell with one name, of a kind without and of a kind with recovery
OneCell(caller) ==
    {[cells |-> 1 :> CellOf("c1", "ns", k, p, u, FALSE),
      live |-> 1 :> LiveOf(p, u)] :
        k \in {"ConfigMap", "Service"}, p \in Pairs(caller), u \in Unused}

\* every combination of the arguments the decisions read, on one cell
Init ==
    Start(ArgSet(BOOLEAN, BOOLEAN, {"", "X"}, BOOLEAN, Overrides, {FALSE}, {TRUE}),
          EnvSet({AllOk}, BOOLEAN, BOOLEAN, {ApplyErrors}),
          [ca \in Callers |-> OneCell(ca)])

Spec == Init /\ [][Next]_vars

\* a second name of a cell: unused, to create, or to delete
Few(caller) ==
    Unused
    \cup {[d |-> Desired(1, caller), l |-> NoItem]}
    \cup {[d |-> NoItem,
           l |-> [body |-> 1, annot |-> TRUE, sha |-> Hash(1),
                  caller |-> "X", owner |-> FALSE]]}

\* two cells that two workers of threaded.run process, on the same cluster
\* or on two
TwoCells(caller) ==
    {[cells |-> (1 :> CellOf("c1", "ns", "ConfigMap", p, q, FALSE))
                @@ (2 :> CellOf(cl, "ns2", "ConfigMap", r, u, FALSE)),
      live |-> (1 :> LiveOf(p, q)) @@ (2 :> LiveOf(r, u))] :
        p \in Pairs(caller), q \in Few(caller), cl \in Clusters,
        r \in {[d |-> Desired(1, caller), l |-> NoItem]}, u \in Unused}

InitPool ==
    Start(ArgSet({FALSE}, BOOLEAN, {"", "X"}, {FALSE}, Overrides, {FALSE}, {FALSE}),
          EnvSet({AllOk}, {TRUE}, {FALSE}, {{"StatusCodeError"}}),
          [ca \in Callers |-> TwoCells(ca)])

SpecPool == InitPool /\ [][OneRun]_vars

\* a desired body with an object found on the cluster, or an object to delete
ApplyPairs(caller) ==
    {[d |-> NoItem, l |-> l] : l \in Orphans}
    \cup
    {[d |-> Desired(2, caller), l |-> l] : l \in {NoItem} \cup Found}

\* one cell of every kind, in a namespace or cluster scoped, applied with
\* the privileged client
OneKind(caller) ==
    {[cells |-> 1 :> CellOf("c1", ns, k, p, u, TRUE),
      live |-> 1 :> LiveOf(p, u)] :
        ns \in {"ns", "cluster"}, k \in Kinds, p \in ApplyPairs(caller),
        u \in Unused}

\* every answer of the provider to apply(), on one cell
InitApply ==
    Start(ArgSet(BOOLEAN, {FALSE}, {""}, {FALSE}, {"None"}, BOOLEAN, BOOLEAN),
          EnvSet({AllOk, NoAdmin}, BOOLEAN, {FALSE}, {ApplyErrors}),
          [ca \in Callers |-> OneKind(ca)])

SpecApply == InitApply /\ [][OneRun]_vars

-----------------------------------------------------------------------------
(* init_specs_to_fetch (openshift_base.py, 52-184) *)

\* the kinds a namespace or the integration can manage, in a fixed order
FetchKinds == <<"ConfigMap", "Secret">>
FetchKindSet == {FetchKinds[i] : i \in 1..Len(FetchKinds)}

\* a desired resource of a namespace: a mapping, not a kind
Mapping == "openshift_resource"

\* override_managed_types=None
NoTypes == <<"None">>

\* the elements of a sequence
Range(seq) == {seq[i] : i \in 1..Len(seq)}

StateSpec(type, cluster, namespace, resource, override, names, privileged) ==
    [type |-> type, cluster |-> cluster, namespace |-> namespace,
     resource |-> resource, resource_type_override |-> override,
     resource_names |-> names, privileged |-> privileged]

\* resource_names=None
AllNames == {"None"}

\* the key of a cell of the inventory
CellKey(cluster, namespace, kind) == <<cluster, namespace, kind>>

\* ri.initialize_resource_type(cluster, namespace, resource_type)
initialize_resource_type(r, cluster, namespace, kind) ==
    IF CellKey(cluster, namespace, kind) \in DOMAIN r.cells THEN r
    ELSE [r EXCEPT !.cells =
            @ @@ (CellKey(cluster, namespace, kind) :>
                    CellOf(cluster, namespace, kind,
                           [d |-> NoItem], [d |-> NoItem], FALSE))]

RECURSIVE InitializeAll(_, _, _, _)
InitializeAll(r, cluster, namespace, kinds) ==
    IF kinds = <<>> THEN r
    ELSE InitializeAll(initialize_resource_type(r, cluster, namespace,
                                                Head(kinds)),
                       cluster, namespace, Tail(kinds))

\* what init_specs_to_fetch has built so far
Built(specs, r, raised) == [specs |-> specs, ri |-> r, raised |-> raised]

\* a variant that registers the error at every log level
C19_MutUnresolved(b, oc) ==
    Built(b.specs, register_error(b.ri, ""), b.raised)

\* oc_map.get(cluster, privileged) gave no client: the error is registered,
\* with no cluster, when it is logged at the error level
Unresolved(b, oc) ==
    Built(b.specs, IF oc = "error" THEN register_error(b.ri, "") ELSE b.ri,
          b.raised)

\* managed_types of a namespace
ManagedTypes(info, omt) ==
    IF omt = NoTypes THEN info.managedResourceTypes ELSE Range(omt)

\* the override of a kind, "" for none
OverrideOf(info, managed, kind) ==
    LET os == SelectSeq(info.managedResourceTypeOverrides,
                        LAMBDA o : o.resource = kind /\ o.resource \in managed)
    IN  IF os = <<>> THEN "" ELSE os[Len(os)].override

\* a variant that looks at the managedResourceNames entries only
C22_MutStrange(info, managed) ==
    \E i \in 1..Len(info.managedResourceNames) :
        info.managedResourceNames[i].resource \notin managed

\* a managedResourceNames or managedResourceTypeOverrides entry of a kind
\* that is not managed
Strange(info, managed) ==
    \/ \E i \in 1..Len(info.managedResourceNames) :
          info.managedResourceNames[i].resource \notin managed
    \/ \E i \in 1..Len(info.managedResourceTypeOverrides) :
          info.managedResourceTypeOverrides[i].resource \notin managed

\* a variant that leaves the kinds with a name-restricted spec in the set
C21_MutRemaining(managed, named) ==
    SelectSeq(FetchKinds, LAMBDA t : t \in managed)

\* managed_types once every kind with a name-restricted spec is removed
Remaining(managed, named) ==
    SelectSeq(FetchKinds,
              LAMBDA t : /\ t \in managed
                         /\ \A i \in 1..Len(named) : named[i].resource # t)

\* one turn of `for namespace_info in namespaces`
NamespaceSpecs(b, info, omt, ocs) ==
    LET managed == ManagedTypes(info, omt)
        cluster == info.cluster
        privileged == info.clusterAdmin
        oc == ocs[<<cluster, privileged>>]
        namespace == info.name
        given == omt # NoTypes /\ omt # <<>>
        named == SelectSeq(info.managedResourceNames,
                           LAMBDA m : m.resource \in managed)
        strange == Strange(info, managed)
        rest == Remaining(managed, named)
        r1 == InitializeAll(b.ri, cluster, namespace,
                            SelectSeq(FetchKinds, LAMBDA t : t \in managed))
        restricted ==
            [i \in 1..Len(named) |->
                StateSpec("current", cluster, namespace, named[i].resource,
                          OverrideOf(info, managed, named[i].resource),
                          named[i].resourceNames, FALSE)]
        generic ==
            [i \in 1..Len(rest) |->
                StateSpec("current", cluster, namespace, rest[i],
                          OverrideOf(info, managed, rest[i]), AllNames, FALSE)]
        desired ==
            [i \in 1..info.openshiftResources |->
                StateSpec("desired", cluster, namespace, Mapping, "",
                          AllNames, privileged)]
    IN  IF managed = {} THEN b
        ELSE IF oc # "ok" THEN Unresolved(b, oc)
        ELSE IF strange /\ ~given THEN Built(b.specs, r1, "KeyError")
        ELSE Built(b.specs \o restricted \o generic \o desired, r1, "")

\* one turn of `for cluster_info in clusters`
ClusterSpecs(b, info, omt, ocs) ==
    LET cluster == info.name
        oc == ocs[<<cluster, FALSE>>]
        types == IF omt = NoTypes THEN <<>> ELSE omt
        both == [i \in 1..(2 * Len(types)) |->
                    StateSpec(IF i % 2 = 1 THEN "current" ELSE "desired",
                              cluster, "cluster", types[(i + 1) \div 2], "",
                              AllNames, FALSE)]
    IN  IF oc # "ok" THEN Unresolved(b, oc)
        ELSE Built(b.specs \o both,
                   InitializeAll(b.ri, cluster, "cluster", types), "")

RECURSIVE ForNamespaces(_, _, _, _)
ForNamespaces(b, infos, omt, ocs) ==
    IF infos = <<>> \/ b.raised # "" THEN b
    ELSE ForNamespaces(NamespaceSpecs(b, Head(infos), omt, ocs),
                       Tail(infos), omt, ocs)

RECURSIVE ForClusters(_, _, _, _)
ForClusters(b, infos, omt, ocs) ==
    IF infos = <<>> \/ b.raised # "" THEN b
    ELSE ForClusters(ClusterSpecs(b, Head(infos), omt, ocs),
                     Tail(infos), omt, ocs)

\* init_specs_to_fetch(ri, oc_map, namespaces, clusters,
\*                     override_managed_types)
init_specs_to_fetch(r, ocs, namespaces, clusters, omt) ==
    IF clusters # <<>> /\ namespaces # <<>>
    THEN Built(<<>>, r, "KeyError")
    ELSE IF namespaces # <<>>
    THEN ForNamespaces(Built(<<>>, r, ""), namespaces, omt, ocs)
    ELSE IF clusters # <<>>
    THEN ForClusters(Built(<<>>, r, ""), clusters, omt, ocs)
    ELSE Built(<<>>, r, "KeyError")

-----------------------------------------------------------------------------
(* populate_current_state and fetch_current_state (openshift_base.py, 187-248) *)

\* the objects of every kind on every cluster: one under each name
OnCluster == [n \in NameSet |-> annotate(Desired(1, ""))]

\* oc.get_items(kind, namespace, resource_names): the objects of the kind,
\* those of the given names when names are given
get_items(objs, names) ==
    [n \in NameSet |-> IF names = AllNames \/ n \in names THEN objs[n]
                       ELSE NoItem]

\* ri.add_current for every item of a listing
add_current(r, key, items) ==
    [r EXCEPT !.cells[key].current =
        [n \in NameSet |-> IF items[n] # NoItem THEN items[n] ELSE @[n]]]

\* how a listing ends. Listing a desired resource of a namespace hands the
\* client a mapping where it expects a kind: what comes back is not defined
ListOutcomes(resource) ==
    IF resource = Mapping THEN {"ok", "StatusCodeError", "Exception"}
    ELSE {"ok", "StatusCodeError"}

\* the state of one fetch_current_state call
FetchState(namespaces, clusters, omt, ocs, api) ==
    [mode |-> "fetch", phase |-> "init", namespaces |-> namespaces,
     clusters |-> clusters, omt |-> omt, ocs |-> ocs, api |-> api,
     specs |-> <<>>, taken |-> {}, listed |-> {}, added |-> {},
     raised |-> ""]

\* state_specs = init_specs_to_fetch(ri, oc_map, ...)
InitSpecs ==
    /\ fs.mode = "fetch" /\ fs.phase = "init"
    /\ LET b == init_specs_to_fetch(ri, fs.ocs, fs.namespaces, fs.clusters,
                                    fs.omt)
       IN  /\ ri' = b.ri
           /\ fs' = [fs EXCEPT !.phase = IF b.raised = "" THEN "populate"
                                         ELSE "raised",
                               !.specs = IF b.raised = "" THEN b.specs
                                         ELSE <<>>,
                               !.raised = b.raised]
    /\ calls' = <<>>
    /\ last' = Step(0, "", "init_specs", "", "")
    /\ UNCHANGED <<logs, crb, val, args, env, live, pc, actions, run, hist>>

\* populate_current_state(spec, ri, ...) for one spec of state_specs,
\* whatever its type
Populate(k) ==
    /\ fs.mode = "fetch" /\ fs.phase = "populate"
    /\ k \in (1..Len(fs.specs)) \ fs.taken
    /\ LET spec == fs.specs[k]
           key == CellKey(spec.cluster, spec.namespace, spec.resource)
           items == IF spec.resource = Mapping THEN NoItems
                    ELSE get_items(live[key], spec.resource_names)
       IN  IF fs.api # {} /\ spec.resource \notin fs.api
           THEN /\ fs' = [fs EXCEPT !.taken = @ \cup {k}]
                /\ calls' = <<>>
                /\ ri' = ri
           ELSE \E o \in ListOutcomes(spec.resource) :
                /\ calls' = <<Call("get_items", spec.namespace,
                                   spec.resource, "", o)>>
                /\ ri' = IF o = "ok" /\ items # NoItems
                         THEN add_current(ri, key, items)
                         ELSE IF o = "StatusCodeError"
                         THEN register_error(ri, spec.cluster)
                         ELSE ri
                /\ fs' = [fs EXCEPT
                            !.taken = @ \cup {k},
                            !.listed = @ \cup {k},
                            !.added = IF o = "ok" /\ items # NoItems
                                      THEN @ \cup {k} ELSE @,
                            !.raised = IF o = "Exception" THEN o ELSE @]
    /\ last' = Step(k, "", "populate", "", "")
    /\ UNCHANGED <<logs, crb, val, args, env, live, pc, actions, run, hist>>

\* threaded.run is over: fetch_current_state returns ri and oc_map, or the
\* exception of a worker surfaces
FetchReturn ==
    /\ fs.mode = "fetch" /\ fs.phase = "populate"
    /\ fs.taken = 1..Len(fs.specs)
    /\ fs' = [fs EXCEPT !.phase = IF fs.raised = "" THEN "returned"
                                  ELSE "raised"]
    /\ calls' = <<>>
    /\ last' = Step(0, "", "return", "", fs.raised)
    /\ UNCHANGED <<logs, crb, val, args, env, ri, live, pc, actions, run, hist>>

FetchNext ==
    \/ InitSpecs
    \/ \E k \in 1..4 : Populate(k)
    \/ FetchReturn

\* the namespaces a caller passes: the first with every feature, the second
\* a plain one on either cluster
FirstInfos ==
    [cluster : {"c1"}, name : {"ns"},
     managedResourceTypes : {{}, {"ConfigMap"}, {"ConfigMap", "Secret"}},
     clusterAdmin : BOOLEAN,
     managedResourceNames :
        {<<>>, <<[resource |-> "ConfigMap", resourceNames |-> {"n1"}]>>,
         <<[resource |-> "Route", resourceNames |-> {"n1"}]>>},
     managedResourceTypeOverrides :
        {<<>>, <<[resource |-> "Secret", override |-> "Secret.v1"]>>},
     openshiftResources : 0..1]

SecondInfos ==
    [cluster : Clusters, name : {"ns2"},
     managedResourceTypes : {{"ConfigMap"}},
     clusterAdmin : {FALSE}, managedResourceNames : {<<>>},
     managedResourceTypeOverrides : {<<>>}, openshiftResources : {0}]

ClusterInfos == {<<[name |-> "c1"]>>, <<[name |-> "c1"], [name |-> "c2"]>>}

\* namespaces and clusters as given: one of them, none, or both
FetchInputs ==
    {<<<<a>>, <<>>>> : a \in FirstInfos}
    \cup {<<<<a, b>>, <<>>>> : a \in FirstInfos, b \in SecondInfos}
    \cup {<<<<>>, c>> : c \in ClusterInfos}
    \cup {<<<<>>, <<>>>>}
    \cup {<<<<b>>, c>> : b \in SecondInfos, c \in ClusterInfos}

\* what oc_map.get gives for a cluster and a privilege
OcMaps ==
    {[x \in Clusters \X BOOLEAN |->
        IF x[1] = "c1" /\ (x[2] \/ ~p) THEN o ELSE "ok"] :
        o \in {"ok", "error", "skipped"}, p \in BOOLEAN}

AllKeys == {CellKey(cl, ns, k) : cl \in Clusters,
                                 ns \in {"ns", "ns2", "cluster"},
                                 k \in FetchKindSet}

InitFetch ==
    /\ \E in \in FetchInputs :
       \E omt \in {NoTypes, <<>>, <<"ConfigMap">>, <<"ConfigMap", "Secret">>} :
       \E ocs \in OcMaps : \E api \in {{}, {"ConfigMap"}} :
         fs = FetchState(in[1], in[2], omt, ocs, api)
    /\ args \in ArgSet({FALSE}, {FALSE}, {""}, {FALSE}, {"None"}, {FALSE},
                       {FALSE})
    /\ env \in EnvSet({AllOk}, {TRUE}, {FALSE}, {{}})
    /\ ri = NewInventory(<<>>, FALSE)
    /\ live = [key \in AllKeys |-> OnCluster]
    /\ pc = <<>> /\ actions = <<>> /\ calls = <<>>
    /\ last = Step(0, "", "fetch", "", "")
    /\ run = 1
    /\ hist = [exit |-> -1, prev |-> -1, acted |-> FALSE]
    /\ val = NoValidation
    /\ logs = NotCalled /\ crb = NotCalled

SpecFetch == InitFetch /\ [][FetchNext]_vars

-----------------------------------------------------------------------------
(* validate_data (openshift_base.py, 549-655) and the objects it polls *)

\* @retry(exceptions=(ValidationError), max_attempts=100)
max_attempts == 100

\* status.get(...) of a key that is not there
None == -1

supported_kinds ==
    {"Deployment", "DeploymentConfig", "StatefulSet", "Subscription", "Job",
     "ClowdApp", "ClowdJobInvocation"}

\* the reasons of a condition of a Job
Reasons == {"OOMKilled", "DeadlineExceeded"}

Cond(type, reason) == [type |-> type, reason |-> reason]

\* the object oc.get returns, by the fields validate_data reads; status is
\* whether a non-empty status is there
NoStatus ==
    [status |-> FALSE, spec_replicas |-> 0, replicas |-> None,
     readyReplicas |-> None, updatedReplicas |-> None, state |-> "",
     succeeded |-> None, conditions |-> <<>>, deployments |-> FALSE,
     managedDeployments |-> None, readyDeployments |-> None,
     completed |-> FALSE, jobMap |-> <<>>]

WithStatus == [NoStatus EXCEPT !.status = TRUE]

\* replica counts: None, or 0..MaxReplicas
MaxReplicas == 1
Counts == {None} \cup 0..MaxReplicas

DeploymentObjects ==
    {[WithStatus EXCEPT !.spec_replicas = d, !.replicas = r,
                        !.readyReplicas = rr, !.updatedReplicas = u] :
        d \in 0..MaxReplicas, r \in Counts, rr \in Counts,
        u \in {None, MaxReplicas}}

SubscriptionObjects ==
    {[WithStatus EXCEPT !.state = st] :
        st \in {"AtLatestKnown", "UpgradePending", ""}}

JobConditions ==
    {<<>>, <<Cond("Suspended", "JobSuspended")>>}
    \cup {<<Cond("Failed", r)>> : r \in Reasons}
    \cup {<<Cond("Suspended", "JobSuspended"), Cond("Failed", r)>> :
            r \in Reasons}
    \cup {<<Cond("Failed", p[1]), Cond("Failed", p[2])>> :
            p \in {q \in Reasons \X Reasons : q[1] # q[2]}}

JobObjects ==
    {[WithStatus EXCEPT !.succeeded = su, !.conditions = cs] :
        su \in {None, 0, 1}, cs \in JobConditions}

ClowdAppObjects ==
    {WithStatus}
    \cup {[WithStatus EXCEPT !.deployments = TRUE, !.managedDeployments = m,
                             !.readyDeployments = r] :
            m \in 0..MaxReplicas, r \in 0..MaxReplicas}

JobMaps == {<<>>, <<"Complete">>, <<"Failed">>, <<"Complete", "Failed">>}

ClowdJobInvocationObjects ==
    {[WithStatus EXCEPT !.completed = co, !.jobMap = jm] :
        co \in BOOLEAN, jm \in JobMaps}

\* what oc.get(namespace, kind, name) can return for an applied action
Objects(kind) ==
    {NoStatus} \cup
    CASE kind \in {"Deployment", "DeploymentConfig", "StatefulSet"} ->
            DeploymentObjects
      [] kind = "Subscription" -> SubscriptionObjects
      [] kind = "Job" -> JobObjects
      [] kind = "ClowdApp" -> ClowdAppObjects
      [] kind = "ClowdJobInvocation" -> ClowdJobInvocationObjects
      [] OTHER -> {}

\* what one turn of the loop ends with: "" goes on to the next action, a
\* signal is raised with its message
Signal(sig, msg) == [sig |-> sig, msg |-> msg]
Valid == Signal("", <<>>)

\* the indices of a sequence whose element satisfies a test
FailedAt(seq) == {k \in 1..Len(seq) : seq[k].type = "Failed"}
Min(S) == CHOOSE x \in S : \A y \in S : x <= y

\* kind in ['Deployment', 'DeploymentConfig', 'StatefulSet']
ValidateReplicas(name, r) ==
    IF r.spec_replicas = 0 THEN Valid
    ELSE IF r.replicas = 0 THEN Valid
    ELSE IF ~(/\ r.spec_replicas = r.replicas
              /\ r.replicas = r.readyReplicas
              /\ r.readyReplicas = r.updatedReplicas)
    THEN Signal("ValidationError", <<name>>)
    ELSE Valid

\* kind == 'Subscription'
ValidateSubscription(name, r) ==
    IF r.state # "AtLatestKnown" THEN Signal("ValidationError", <<name>>)
    ELSE Valid

\* mutant: a failed Job is not yet ready like any other
C12_MutValidateJob(name, r) ==
    IF r.succeeded \in {None, 0} THEN Signal("ValidationError", <<name>>)
    ELSE Valid

\* kind == 'Job': the message of the fatal signal is "<name>: <reason>" of
\* the first condition of type Failed
ValidateJob(name, r) ==
    IF r.succeeded \in {None, 0}
    THEN IF FailedAt(r.conditions) # {}
         THEN Signal("ValidationErrorJobFailed",
                     <<name, r.conditions[Min(FailedAt(r.conditions))].reason>>)
         ELSE Signal("ValidationError", <<name>>)
    ELSE Valid

\* kind == 'ClowdApp'
ValidateClowdApp(name, r) ==
    IF ~r.deployments THEN Signal("ValidationError", <<name>>)
    ELSE IF r.managedDeployments # r.readyDeployments
    THEN Signal("ValidationError", <<name>>)
    ELSE Valid

\* kind == 'ClowdJobInvocation'
\* mutant: a failed job is fatal whether or not the invocation completed
C35_MutValidateClowdJobInvocation(name, r) ==
    IF \E k \in 1..Len(r.jobMap) : r.jobMap[k] = "Failed"
    THEN Signal("ValidationErrorJobFailed", <<name, "failed jobs">>)
    ELSE IF r.completed THEN Valid ELSE Signal("ValidationError", <<name>>)

ValidateClowdJobInvocation(name, r) ==
    IF r.completed
    THEN IF \E k \in 1..Len(r.jobMap) : r.jobMap[k] = "Failed"
         THEN Signal("ValidationErrorJobFailed", <<name, "failed jobs">>)
         ELSE Valid
    ELSE Signal("ValidationError", <<name>>)

\* mutant: the status is not looked at before the kind
C33_MutValidateObject(kind, name, r) ==
    CASE kind \in {"Deployment", "DeploymentConfig", "StatefulSet"} ->
            ValidateReplicas(name, r)
      [] kind = "Subscription" -> ValidateSubscription(name, r)
      [] kind = "Job" -> ValidateJob(name, r)
      [] kind = "ClowdApp" -> ValidateClowdApp(name, r)
      [] kind = "ClowdJobInvocation" -> ValidateClowdJobInvocation(name, r)
      [] OTHER -> Valid

\* the body of the loop for an applied action of a supported kind, from
\* oc.get on
ValidateObject(kind, name, r) ==
    IF ~r.status THEN Signal("ValidationError", <<"status">>)
    ELSE CASE kind \in {"Deployment", "DeploymentConfig", "StatefulSet"} ->
                ValidateReplicas(name, r)
           [] kind = "Subscription" -> ValidateSubscription(name, r)
           [] kind = "Job" -> ValidateJob(name, r)
           [] kind = "ClowdApp" -> ValidateClowdApp(name, r)
           [] kind = "ClowdJobInvocation" -> ValidateClowdJobInvocation(name, r)
           [] OTHER -> Valid

\* the action is not polled: not applied, not a supported kind, or the
\* client of its cluster does not resolve
NotPolled(a, oc) ==
    a.action # "applied" \/ a.kind \notin supported_kinds \/ ~oc

\* the state of validate_data(oc_map, actions) under the retry wrapper
Validation(acts, oc, attempt, i, read, signal, result) ==
    [acts |-> acts, oc |-> oc, attempt |-> attempt, i |-> i, read |-> read,
     sig |-> signal.sig, msg |-> signal.msg, result |-> result]

Validating == val.result = "" /\ val.sig = ""

\* one turn of `for action in actions`
ValidateTurn ==
    /\ Validating
    /\ val.i <= Len(val.acts)
    /\ LET a == val.acts[val.i]
       IN  IF NotPolled(a, val.oc)
           THEN /\ val' = [val EXCEPT !.i = @ + 1, !.read = NoStatus]
                /\ calls' = <<>>
           ELSE \E r \in Objects(a.kind) :
                  LET v == ValidateObject(a.kind, a.name, r)
                  IN  /\ val' = [val EXCEPT
                                   !.i = IF v.sig = "" THEN @ + 1 ELSE @,
                                   !.read = r, !.sig = v.sig, !.msg = v.msg]
                      /\ calls' = <<Call("get", a.namespace, a.kind, a.name,
                                         "ok")>>
    /\ last' = Step(0, "", "validate", "", "")
    /\ UNCHANGED <<logs, crb, fs, args, env, ri, live, pc, actions, run, hist>>

\* the loop is over: validate_data returns
ValidateReturn ==
    /\ Validating
    /\ val.i > Len(val.acts)
    /\ val' = [val EXCEPT !.result = "ok"]
    /\ calls' = <<>>
    /\ last' = Step(0, "", "validated", "", "")
    /\ UNCHANGED <<logs, crb, fs, args, env, ri, live, pc, actions, run, hist>>

\* mutant: the next attempt resumes at the action that was not ready
C36_MutRetry ==
    /\ val.result = "" /\ val.sig # ""
    /\ val' = IF val.sig = "ValidationError" /\ val.attempt < max_attempts
              THEN [val EXCEPT !.attempt = @ + 1, !.sig = "",
                               !.msg = <<>>, !.read = NoStatus]
              ELSE [val EXCEPT !.result = val.sig]
    /\ calls' = <<>>
    /\ last' = Step(0, "", "retry", "", val.sig)
    /\ UNCHANGED <<logs, crb, fs, args, env, ri, live, pc, actions, run, hist>>

\* mutant: at the last attempt the wrapper gives up without raising
C34_MutRetry ==
    /\ val.result = "" /\ val.sig # ""
    /\ val' = IF val.sig = "ValidationError" /\ val.attempt < max_attempts
              THEN [val EXCEPT !.attempt = @ + 1, !.i = 1, !.sig = "",
                               !.msg = <<>>, !.read = NoStatus]
              ELSE [val EXCEPT !.result = IF val.sig = "ValidationError"
                                          THEN "ok" ELSE val.sig]
    /\ calls' = <<>>
    /\ last' = Step(0, "", "retry", "", val.sig)
    /\ UNCHANGED <<logs, crb, fs, args, env, ri, live, pc, actions, run, hist>>

\* the retry wrapper: a ValidationError before the last attempt starts the
\* function again; at the last attempt, and for any other exception, the
\* exception leaves the wrapper
Retry ==
    /\ val.result = "" /\ val.sig # ""
    /\ val' = IF val.sig = "ValidationError" /\ val.attempt < max_attempts
              THEN [val EXCEPT !.attempt = @ + 1, !.i = 1, !.sig = "",
                               !.msg = <<>>, !.read = NoStatus]
              ELSE [val EXCEPT !.result = val.sig]
    /\ calls' = <<>>
    /\ last' = Step(0, "", "retry", "", val.sig)
    /\ UNCHANGED <<logs, crb, fs, args, env, ri, live, pc, actions, run, hist>>

ValidateNext ==
    \/ ValidateTurn
    \/ ValidateReturn
    \/ Retry

\* an entry of the Action list realize_data returned
Act(what, kind, name) ==
    [action |-> what, cluster |-> "c1", namespace |-> "ns", kind |-> kind,
     name |-> name, privileged |-> FALSE]

\* Action lists of two entries: anything first, then an applied object of a
\* kind that can fail
ActLists ==
    {<<a, b>> :
        a \in {Act("applied", k, Names[1]) :
                 k \in supported_kinds \cup {"ConfigMap"}}
              \cup {Act("deleted", "Job", Names[1])},
        b \in {Act("applied", k, Names[2]) :
                 k \in {"Job", "ClowdJobInvocation", "Deployment"}}}

InitValidate ==
    /\ \E acts \in ActLists : \E oc \in BOOLEAN :
         val = Validation(acts, oc, 1, 1, NoStatus, Valid, "")
    /\ args \in ArgSet({FALSE}, {FALSE}, {""}, {FALSE}, {"None"}, {FALSE},
                       {FALSE})
    /\ env \in EnvSet({AllOk}, {TRUE}, {FALSE}, {{}})
    /\ ri = NewInventory(<<>>, FALSE)
    /\ live = <<>> /\ pc = <<>> /\ actions = <<>> /\ calls = <<>>
    /\ last = Step(0, "", "validate", "", "")
    /\ run = 1
    /\ hist = [exit |-> -1, prev |-> -1, acted |-> FALSE]
    /\ fs = NoFetch
    /\ logs = NotCalled /\ crb = NotCalled

SpecValidate == InitValidate /\ [][ValidateNext]_vars

\* validate_data is one sequential call: a step that can be taken is taken
SpecValidateFair == SpecValidate /\ WF_vars(ValidateNext)

-----------------------------------------------------------------------------
(* follow_logs (reconcile/openshift_base.py) *)

\* the supported_kinds of follow_logs
log_supported_kinds == {"Job", "ClowdJobInvocation"}

\* what oc.job_logs and oc.get end with: they return, or they raise
LogOutcomes == {"ok", "StatusCodeError"}

\* status.jobMap of a ClowdJobInvocation: the names of its jobs
LogJobMaps == {<<>>, <<"j1">>, <<"j1", "j2">>}

\* `for jn in jobs: oc.job_logs(namespace, jn, ...)`, where the call for the
\* f-th job raises (f = 0: none does)
JobLogCalls(ns, jobs, f) ==
    [k \in 1..(IF f = 0 THEN Len(jobs) ELSE f) |->
        Call("job_logs", ns, "Job", jobs[k],
             IF k = f THEN "StatusCodeError" ELSE "ok")]

\* the turn continues before any provider call
NotFollowed(a, oc) ==
    a.action # "applied" \/ a.kind \notin log_supported_kinds \/ ~oc

\* what the calls of one turn leave: the files of the calls that returned,
\* and the first error, which nothing in follow_logs catches
Followed(cs) ==
    LET bad == {k \in 1..Len(cs) : cs[k].res # "ok"}
        raised == IF bad = {} THEN "" ELSE cs[CHOOSE k \in bad : TRUE].res
    IN  [logs EXCEPT
            !.files = @ \cup {cs[k].name : k \in {j \in 1..Len(cs) :
                                cs[j].op = "job_logs" /\ cs[j].res = "ok"}},
            !.i = IF raised = "" THEN @ + 1 ELSE @,
            !.result = raised]

\* one turn of `for action in actions`
FollowTurn ==
    /\ logs.result = ""
    /\ logs.i <= Len(logs.acts)
    /\ LET a == logs.acts[logs.i]
       IN  IF NotFollowed(a, logs.oc)
           THEN /\ logs' = [logs EXCEPT !.i = @ + 1]
                /\ calls' = <<>>
           ELSE IF a.kind = "Job"
           THEN \E o \in LogOutcomes :
                  /\ calls' = <<Call("job_logs", a.namespace, "Job", a.name,
                                     o)>>
                  /\ logs' = Followed(calls')
           ELSE \E o \in LogOutcomes : \E jobs \in LogJobMaps :
                \E f \in 0..Len(jobs) :
                  /\ calls' = <<Call("get", a.namespace, a.kind, a.name, o)>>
                              \o (IF o = "ok"
                                  THEN JobLogCalls(a.namespace, jobs, f)
                                  ELSE <<>>)
                  /\ logs' = Followed(calls')
    /\ last' = Step(0, "", "follow", "", logs'.result)
    /\ UNCHANGED <<crb, fs, val, args, env, ri, live, pc, actions, run, hist>>

\* the loop is over: follow_logs returns None
FollowReturn ==
    /\ logs.result = ""
    /\ logs.i > Len(logs.acts)
    /\ logs' = [logs EXCEPT !.result = "ok"]
    /\ calls' = <<>>
    /\ last' = Step(0, "", "followed", "", "")
    /\ UNCHANGED <<crb, fs, val, args, env, ri, live, pc, actions, run, hist>>

FollowNext ==
    \/ FollowTurn
    \/ FollowReturn

\* Action lists of two entries: anything first, then an applied Job or
\* ClowdJobInvocation
LogLists ==
    {<<a, b>> :
        a \in {Act("applied", k, Names[1]) :
                 k \in log_supported_kinds \cup {"ConfigMap"}}
              \cup {Act("deleted", "Job", Names[1])},
        b \in {Act("applied", k, Names[2]) : k \in log_supported_kinds}}

InitLogs ==
    /\ \E acts \in LogLists : \E oc \in BOOLEAN :
         logs = [acts |-> acts, oc |-> oc, i |-> 1, files |-> {},
                 result |-> ""]
    /\ args \in ArgSet({FALSE}, {FALSE}, {""}, {FALSE}, {"None"}, {FALSE},
                       {FALSE})
    /\ env \in EnvSet({AllOk}, {TRUE}, {FALSE}, {{}})
    /\ ri = NewInventory(<<>>, FALSE)
    /\ live = <<>> /\ pc = <<>> /\ actions = <<>> /\ calls = <<>>
    /\ last = Step(0, "", "follow", "", "")
    /\ run = 1
    /\ hist = [exit |-> -1, prev |-> -1, acted |-> FALSE]
    /\ fs = NoFetch /\ val = NoValidation /\ crb = NotCalled

SpecLogs == InitLogs /\ [][FollowNext]_vars

-----------------------------------------------------------------------------
(* fetch_desired_state (reconcile/openshift_clusterrolebindings.py) *)

\* construct_user_oc_resource(role, user): the resource and its name
construct_user_oc_resource(role, user) ==
    [name |-> role \o "-" \o user,
     body |-> [roleRef |-> role, subjects |-> <<"User", user>>]]

\* construct_sa_oc_resource(role, namespace, sa_name)
construct_sa_oc_resource(role, namespace, sa_name) ==
    [name |-> role \o "-" \o namespace \o "-" \o sa_name,
     body |-> [roleRef |-> role,
               subjects |-> <<"ServiceAccount", namespace, sa_name>>]]

\* the entries of role['access'] with a cluster and a clusterRole; "" stands
\* for None
Permissions(role) ==
    SelectSeq(role.access, LAMBDA a : a.cluster # "" /\ a.clusterRole # "")

\* the github_username of the users, then of the bots that have one
Users(role) ==
    LET bots == SelectSeq(role.bots, LAMBDA b : b.github_username # "")
    IN  role.users \o [k \in 1..Len(bots) |-> bots[k].github_username]

\* the openshift_serviceaccount of the bots that have one, as sa.split('/')
\* gives it: namespace and sa_name
ServiceAccounts(role) ==
    LET bots == SelectSeq(role.bots,
                          LAMBDA b : b.openshift_serviceaccount # NoSA)
    IN  [k \in 1..Len(bots) |-> bots[k].openshift_serviceaccount]

RECURSIVE Concat(_)
Concat(ss) == IF ss = <<>> THEN <<>> ELSE Head(ss) \o Concat(Tail(ss))

\* the turns of the two inner loops for one permission: the users, then the
\* service accounts; none when oc_map has no client for the cluster
PermissionTurns(role, permission, ocs) ==
    LET users == Users(role)
        sas == ServiceAccounts(role)
    IN  IF permission.cluster \notin ocs THEN <<>>
        ELSE [k \in 1..Len(users) |->
                [cluster |-> permission.cluster, user |-> users[k],
                 res |-> construct_user_oc_resource(permission.clusterRole,
                                                    users[k])]]
             \o
             [k \in 1..Len(sas) |->
                [cluster |-> permission.cluster, user |-> "",
                 res |-> construct_sa_oc_resource(permission.clusterRole,
                                                  sas[k].namespace,
                                                  sas[k].sa_name)]]

\* the turns of fetch_desired_state in the order the loops take them
RoleTurns(roles, ocs) ==
    Concat([r \in 1..Len(roles) |->
              LET permissions == Permissions(roles[r])
              IN  Concat([q \in 1..Len(permissions) |->
                            PermissionTurns(roles[r], permissions[q], ocs)])])

\* ri.add_desired(cluster, 'cluster', 'ClusterRoleBinding', name, value) on
\* the desired entries, kept in the order they were added
add_desired(desired, cluster, name, value) ==
    IF \E k \in 1..Len(desired) :
          desired[k].cluster = cluster /\ desired[k].name = name
    THEN [desired |-> desired, raised |-> "ResourceKeyExistsError"]
    ELSE [desired |-> Append(desired, [cluster |-> cluster, name |-> name,
                                       value |-> value]),
          raised |-> ""]

\* mutant: the duplicate is not caught
C39_MutCaught(raised) == FALSE

\* `except ResourceKeyExistsError: pass`
Caught(raised) == raised = "ResourceKeyExistsError"

\* the state of fetch_desired_state(ri, oc_map)
RolesState(roles, ocs, ri_none) ==
    [turns |-> RoleTurns(roles, ocs), ri_none |-> ri_none, pos |-> 1,
     desired |-> <<>>, users_desired_state |-> <<>>, raised |-> "",
     result |-> ""]

\* one turn of `for user in users` or of `for sa in service_accounts`
RolesTurn ==
    /\ crb.result = ""
    /\ crb.pos <= Len(crb.turns)
    /\ LET t == crb.turns[crb.pos]
           users == IF t.user = "" THEN crb.users_desired_state
                    ELSE Append(crb.users_desired_state,
                                [cluster |-> t.cluster, user |-> t.user])
           a == IF crb.ri_none
                THEN [desired |-> crb.desired, raised |-> ""]
                ELSE add_desired(crb.desired, t.cluster, t.res.name,
                                 t.res.body)
       IN  crb' = [crb EXCEPT
                    !.users_desired_state = users,
                    !.desired = a.desired,
                    !.raised = a.raised,
                    !.pos = IF a.raised = "" \/ Caught(a.raised)
                            THEN @ + 1 ELSE @,
                    !.result = IF a.raised = "" \/ Caught(a.raised)
                               THEN "" ELSE a.raised]
    /\ calls' = <<>>
    /\ last' = Step(0, "", "roles", "", "")
    /\ UNCHANGED <<logs, fs, val, args, env, ri, live, pc, actions, run, hist>>

\* `return users_desired_state`
RolesReturn ==
    /\ crb.result = ""
    /\ crb.pos > Len(crb.turns)
    /\ crb' = [crb EXCEPT !.result = "ok", !.raised = ""]
    /\ calls' = <<>>
    /\ last' = Step(0, "", "roles", "", "")
    /\ UNCHANGED <<logs, fs, val, args, env, ri, live, pc, actions, run, hist>>

RolesNext ==
    \/ RolesTurn
    \/ RolesReturn

\* the roles of the query: access entries, users and bots
RoleSet ==
    [access : {<<>>,
               <<[cluster |-> "c1", clusterRole |-> ""]>>,
               <<[cluster |-> "c1", clusterRole |-> "admin"]>>,
               <<[cluster |-> "c1", clusterRole |-> "admin"],
                 [cluster |-> "c2", clusterRole |-> "admin"]>>},
     users : {<<>>, <<"u1">>, <<"u1", "ns-sa">>},
     bots : {<<>>,
             <<[github_username |-> "u1",
                openshift_serviceaccount |-> NoSA]>>,
             <<[github_username |-> "",
                openshift_serviceaccount |->
                    [namespace |-> "ns", sa_name |-> "sa"]]>>}]

InitRoles ==
    /\ \E r1 \in RoleSet : \E r2 \in RoleSet :
       \E ocs \in {{"c1"}, {"c1", "c2"}} : \E ri_none \in BOOLEAN :
         crb = RolesState(<<r1, r2>>, ocs, ri_none)
    /\ args \in ArgSet({FALSE}, {FALSE}, {""}, {FALSE}, {"None"}, {FALSE},
                       {FALSE})
    /\ env \in EnvSet({AllOk}, {TRUE}, {FALSE}, {{}})
    /\ ri = NewInventory(<<>>, FALSE)
    /\ live = <<>> /\ pc = <<>> /\ actions = <<>> /\ calls = <<>>
    /\ last = Step(0, "", "roles", "", "")
    /\ run = 1
    /\ hist = [exit |-> -1, prev |-> -1, acted |-> FALSE]
    /\ fs = NoFetch /\ val = NoValidation /\ logs = NotCalled

SpecRoles == InitRoles /\ [][RolesNext]_vars

-----------------------------------------------------------------------------
(* What the claims read *)

\* the number of Actions of one kind a cell's list holds for a name
Count(c, what, n) ==
    Cardinality({i \in 1..Len(actions[c]) :
                    actions[c][i].action = what /\ actions[c][i].name = n})

\* the latest step is a step of the realize pass of cell c
PassStep(c) == last.cell = c /\ last.pass \in {"start", "desired", "current"}

\* the latest step is the turn of name n in a loop of cell c
Turn(c, n, pass) == last.cell = c /\ last.name = n /\ last.pass = pass

\* the latest step made a provider call of this kind
Called(op) == \E i \in 1..Len(calls) : calls[i].op = op

ClusterOf(c) == ri.cells[c].cluster

-----------------------------------------------------------------------------
(* C1 *)

\* C1: once an error is registered for a cluster, the realize pass over any
\* cell of that cluster enters neither loop, returns an empty Action list
\* and makes no provider call.
C1_ClusterErrorShortCircuit ==
    \A c \in CellIds(ri) :
        has_error_registered(ri, ClusterOf(c)) =>
            /\ actions[c] = <<>>
            /\ pc[c].phase \in {"fetch", "ready", "done"}
            /\ PassStep(c) => calls = <<>>

\* a cell whose own listing succeeded and that has something to apply is
\* passed over because another listing on its cluster failed
C1_Witness ==
    \E c \in CellIds(ri) :
        /\ has_error_registered(ri, ClusterOf(c))
        /\ pc[c].phase = "done"
        /\ PassStep(c)
        /\ Len(Keys(ri.cells[c].current)) > 0
        /\ Len(Keys(ri.cells[c].desired)) > 0
        /\ args.take_over /\ args.override_enable_deletion = "True"

-----------------------------------------------------------------------------
(* C2 *)

\* a current item without provenance annotations, in a run without take-over
Unmanaged(c, n) ==
    /\ ri.cells[c].current[n] # NoItem
    /\ ~has_qontract_annotations(ri.cells[c].current[n])
    /\ ~args.take_over

\* C2 as stated: no provider delete call and no 'deleted' Action for a
\* current item without annotations in a run without take-over, whatever
\* the desired side holds.
C2_Original ==
    \A c \in CellIds(ri) : \A n \in NameSet :
        Unmanaged(c, n) =>
            /\ Count(c, "deleted", n) = 0
            /\ ~(last.cell = c /\ last.name = n /\ Called("delete"))

\* C2 (amended): for a current item without annotations in a run without
\* take-over the current-side pass never calls delete() and no 'deleted'
\* Action is produced; a provider delete reaches the item only inside
\* apply(), as the delete-and-apply recovery after a failed oc.apply of a
\* desired item of that name.
C2_DeletionGuard ==
    \A c \in CellIds(ri) : \A n \in NameSet :
        Unmanaged(c, n) =>
            /\ Count(c, "deleted", n) = 0
            /\ Turn(c, n, "current") => last.op = "" /\ calls = <<>>
            /\ (last.cell = c /\ last.name = n /\ Called("delete")) =>
                  /\ last.pass = "desired" /\ last.op = "apply"
                  /\ ri.cells[c].desired[n] # NoItem
                  /\ calls[1].op = "apply" /\ calls[1].res # "ok"

\* the current-side pass reaches an unannotated item that is not desired and
\* has no owner, with deletion enabled and not in dry-run
C2_Witness ==
    \E c \in CellIds(ri) : \E n \in NameSet :
        /\ Unmanaged(c, n)
        /\ Turn(c, n, "current")
        /\ ri.cells[c].desired[n] = NoItem
        /\ ~has_owner_reference(ri.cells[c].current[n])
        /\ pc[c].enable_deletion /\ ~args.dry_run

-----------------------------------------------------------------------------
(* C3 *)

\* a current item that is not desired, is annotated and records a caller
\* other than the caller of the run
Foreign(c, n) ==
    /\ args.caller # ""
    /\ ri.cells[c].desired[n] = NoItem
    /\ has_qontract_annotations(ri.cells[c].current[n])
    /\ ri.cells[c].current[n].caller # args.caller

\* C3: in a run with a caller, a current item that is absent from desired,
\* annotated and recorded under another caller gets no provider delete call
\* and no 'deleted' Action; an annotated item with a 'deleted' Action
\* records the caller of the run.
C3_OwnershipIsolation ==
    \A c \in CellIds(ri) : \A n \in NameSet :
        /\ Foreign(c, n) =>
              /\ Count(c, "deleted", n) = 0
              /\ Turn(c, n, "current") => last.op = ""
              /\ ~(last.cell = c /\ last.name = n /\ Called("delete"))
        /\ (/\ args.caller # ""
            /\ has_qontract_annotations(ri.cells[c].current[n])
            /\ Count(c, "deleted", n) > 0) =>
              ri.cells[c].current[n].caller = args.caller

\* the current-side pass reaches another caller's item that has no owner,
\* with deletion enabled and not in dry-run
C3_Witness ==
    \E c \in CellIds(ri) : \E n \in NameSet :
        /\ Foreign(c, n)
        /\ Turn(c, n, "current")
        /\ ~has_owner_reference(ri.cells[c].current[n])
        /\ pc[c].enable_deletion /\ ~args.dry_run

-----------------------------------------------------------------------------
(* C4 *)

\* the latest step is a step of a pass that could not delete: an error was
\* registered when the pass started, or the override is False
NoDeletion(c) ==
    /\ PassStep(c)
    /\ last.pass # "start"
    /\ pc[c].err0 \/ args.override_enable_deletion = "False"

\* C4 as stated: a pass that starts with an error registered makes no
\* provider delete call.
C4_Original ==
    \A c \in CellIds(ri) :
        (PassStep(c) /\ pc[c].err0) => ~Called("delete")

\* C4 (amended): with an error registered when the pass starts, or with an
\* override of False, enable_deletion is false for every value of the
\* override and delete() makes no provider call; a provider delete call of
\* such a pass is made by apply(), after a failed oc.apply.
C4_ErrorDisablesDeletion ==
    \A c \in CellIds(ri) :
        NoDeletion(c) =>
            /\ ~pc[c].enable_deletion
            /\ last.op = "delete" => calls = <<>>
            /\ Called("delete") =>
                  /\ last.pass = "desired" /\ last.op = "apply"
                  /\ calls[1].op = "apply" /\ calls[1].res # "ok"

\* delete() is called in a real run under an override of True, in a pass
\* that started with an error registered
C4_Witness ==
    \E c \in CellIds(ri) :
        /\ NoDeletion(c)
        /\ pc[c].err0
        /\ last.op = "delete"
        /\ args.override_enable_deletion = "True"
        /\ ~args.dry_run

-----------------------------------------------------------------------------
(* C5 *)

\* the Action list of the diff of a cell: an 'applied' Action per desired
\* name the desired-side chain applies, then a 'deleted' Action per current
\* name the current-side chain deletes
Diff(c) ==
    LET cell == ri.cells[c]
        ap == SelectSeq(Keys(cell.desired),
                        LAMBDA n : NeedsApply(args, cell.desired[n],
                                              cell.current[n]))
        de == SelectSeq(Keys(cell.current),
                        LAMBDA n : /\ cell.desired[n] = NoItem
                                   /\ Deletable(args, cell.current[n]))
    IN  [i \in 1..Len(ap) |-> Action("applied", cell, ap[i])]
        \o [i \in 1..Len(de) |-> Action("deleted", cell, de[i])]

\* C5: in a dry run no provider call is a mutating one, the objects on the
\* cluster stay as they were listed, and the pass of a cell whose cluster has
\* no error returns the Action list of the diff.
C5_DryRun ==
    args.dry_run =>
        /\ \A i \in 1..Len(calls) : calls[i].op \notin MutatingOps
        /\ \A c \in CellIds(ri) :
              ~has_error_registered(ri, ClusterOf(c)) =>
                  /\ pc[c].phase # "fetch" => ri.cells[c].current = live[c]
                  /\ pc[c].phase = "done" => actions[c] = Diff(c)

\* a dry run ends the pass of a cell with an 'applied' Action for an object
\* that differs from the desired item
C5_Witness ==
    \E c \in CellIds(ri) : \E n \in NameSet :
        /\ args.dry_run
        /\ pc[c].phase = "done"
        /\ Turn(c, n, "current")
        /\ Count(c, "applied", n) = 1
        /\ live[c][n] # NoItem
        /\ ~ItemEq(ri.cells[c].desired[n], live[c][n])

-----------------------------------------------------------------------------
(* C6 *)

Converged ==
    /\ hist.prev = 0
    /\ ~args.dry_run
    /\ ~args.no_dry_run_skip_compare
    /\ args.override_enable_deletion # "False"
    /\ env.ns_exists
    /\ \A p \in BOOLEAN : env.oc_ok[p]

-----------------------------------------------------------------------------
(* C7 *)

\* a desired item whose name is in current with an equal body, the run
\* having no caller
EqualCase(c, n) ==
    /\ args.caller = ""
    /\ ri.cells[c].desired[n] # NoItem
    /\ ri.cells[c].current[n] # NoItem
    /\ ItemEq(ri.cells[c].desired[n], ri.cells[c].current[n])

\* the compare of a present item is skipped
SkipCompare == ~args.dry_run /\ args.no_dry_run_skip_compare

\* C7 as stated: a desired item present in current with an equal body, with
\* no caller, gets no Action and no provider call.
C7_Original ==
    \A c \in CellIds(ri) : \A n \in NameSet :
        EqualCase(c, n) =>
            /\ Count(c, "applied", n) = 0 /\ Count(c, "deleted", n) = 0
            /\ Turn(c, n, "desired") => calls = <<>>

\* C7 (amended): a desired item present in current with an equal body, with
\* no caller, gets no Action, no apply() and no provider call when the
\* current item carries the annotations and the compare is not skipped.
C7_EqualSkips ==
    \A c \in CellIds(ri) : \A n \in NameSet :
        (/\ EqualCase(c, n)
         /\ has_qontract_annotations(ri.cells[c].current[n])
         /\ ~SkipCompare) =>
            /\ Count(c, "applied", n) = 0 /\ Count(c, "deleted", n) = 0
            /\ Turn(c, n, "desired") => last.op = "" /\ calls = <<>>
            /\ Turn(c, n, "current") => last.op = "" /\ calls = <<>>

\* the desired-side loop of a real run passes over an equal annotated item
\* whose stored hash is stale
C7_Witness ==
    \E c \in CellIds(ri) : \E n \in NameSet :
        /\ EqualCase(c, n)
        /\ has_qontract_annotations(ri.cells[c].current[n])
        /\ ~has_valid_sha256sum(ri.cells[c].current[n])
        /\ ~SkipCompare /\ ~args.dry_run
        /\ Turn(c, n, "desired")

-----------------------------------------------------------------------------
(* C8 *)

\* an annotated current item with a body other than the desired one, whose
\* stored hash is the hash of the desired item
HashCase(c, n) ==
    /\ ri.cells[c].desired[n] # NoItem
    /\ ri.cells[c].current[n] # NoItem
    /\ has_qontract_annotations(ri.cells[c].current[n])
    /\ ~ItemEq(ri.cells[c].desired[n], ri.cells[c].current[n])
    /\ ri.cells[c].current[n].sha = sha256sum(ri.cells[c].desired[n])

\* the turn of the name called apply() and appended its 'applied' Action
AppliedOnce(c, n) == last.op = "apply" /\ Count(c, "applied", n) = 1

\* the turn of the name called nothing and appended nothing
PassedOver(c, n) ==
    last.op = "" /\ calls = <<>> /\ Count(c, "applied", n) = 0

\* C8 as stated: with the stored hash equal to the desired hash and the
\* bodies unequal, a stale hash gives one 'applied' Action and a valid hash
\* gives no Action and no provider call.
C8_Original ==
    \A c \in CellIds(ri) : \A n \in NameSet :
        (HashCase(c, n) /\ Turn(c, n, "desired")) =>
            IF has_valid_sha256sum(ri.cells[c].current[n])
            THEN PassedOver(c, n)
            ELSE AppliedOnce(c, n)

\* C8 (amended): with the stored hash equal to the desired hash and the
\* bodies unequal, a stale hash makes the pass call apply() once for the
\* name, with one 'applied' Action when apply() returns and none when it
\* raises; a valid hash gives no Action and no provider call unless the
\* compare is skipped, and then the item is applied like a stale one.
C8_HashPath ==
    \A c \in CellIds(ri) : \A n \in NameSet :
        HashCase(c, n) =>
            /\ Count(c, "applied", n) <= 1 /\ Count(c, "deleted", n) = 0
            /\ Turn(c, n, "desired") =>
                  IF /\ has_valid_sha256sum(ri.cells[c].current[n])
                     /\ ~SkipCompare
                  THEN PassedOver(c, n)
                  ELSE /\ last.op = "apply"
                       /\ Count(c, "applied", n) =
                             IF last.raised = "" THEN 1 ELSE 0
                       /\ (last.raised = "" /\ Called("apply")) =>
                             live[c][n] = annotate(ri.cells[c].desired[n])

\* a real run applies the desired item over an object with a stale hash,
\* and the provider takes it
C8_Witness ==
    \E c \in CellIds(ri) : \E n \in NameSet :
        /\ HashCase(c, n)
        /\ ~has_valid_sha256sum(ri.cells[c].current[n])
        /\ Turn(c, n, "desired")
        /\ AppliedOnce(c, n)
        /\ Called("apply")
        /\ live[c][n] = annotate(ri.cells[c].desired[n])

\* the desired-side loop passes over an object with a valid hash that is
\* the hash of the desired item, the bodies being unequal
C8_ValidReached ==
    \E c \in CellIds(ri) : \E n \in NameSet :
        /\ HashCase(c, n)
        /\ has_valid_sha256sum(ri.cells[c].current[n])
        /\ Turn(c, n, "desired")
        /\ PassedOver(c, n)

-----------------------------------------------------------------------------
(* C9 *)

\* a desired item whose name is not in the current mapping
CreateCase(c, n) ==
    /\ ri.cells[c].desired[n] # NoItem
    /\ ri.cells[c].current[n] = NoItem

\* the number of provider calls of the latest step with this operation
CallCount(op) == Cardinality({i \in 1..Len(calls) : calls[i].op = op})

\* C9 as stated: the turn of a desired item absent from current calls
\* apply() and leaves exactly one 'applied' Action for the name.
C9_Original ==
    \A c \in CellIds(ri) : \A n \in NameSet :
        (CreateCase(c, n) /\ Turn(c, n, "desired")) => AppliedOnce(c, n)

\* C9 (amended): in a pass that is not skipped for a cluster error, a
\* desired item absent from current has apply() called once, with one
\* 'applied' Action when apply() returns and none when it raises; when
\* apply() reaches the provider, oc.apply is called exactly once, first.
C9_CreatePath ==
    \A c \in CellIds(ri) : \A n \in NameSet :
        CreateCase(c, n) =>
            /\ Count(c, "applied", n) <= 1 /\ Count(c, "deleted", n) = 0
            /\ Turn(c, n, "desired") =>
                  /\ last.op = "apply"
                  /\ Count(c, "applied", n) = IF last.raised = "" THEN 1 ELSE 0
                  /\ (~args.dry_run /\ env.ns_exists) =>
                        calls[1].op = "apply" /\ CallCount("apply") = 1
            /\ (pc[c].phase = "done" /\ ~has_error_registered(ri, "")) =>
                  Count(c, "applied", n) = 1

\* a real run creates the object: one oc.apply, one 'applied' Action
C9_Witness ==
    \E c \in CellIds(ri) : \E n \in NameSet :
        /\ CreateCase(c, n)
        /\ Turn(c, n, "desired")
        /\ ~args.dry_run
        /\ CallCount("apply") = 1
        /\ Count(c, "applied", n) = 1
        /\ live[c][n] = annotate(ri.cells[c].desired[n])

-----------------------------------------------------------------------------
(* C10 *)

\* the latest step is an apply() of a Service, Route or Secret whose first
\* oc.apply raised FieldIsImmutableError
ImmutableCase(c) ==
    /\ last.cell = c /\ last.op = "apply"
    /\ ri.cells[c].kind \in ImmutableKinds
    /\ calls # <<>>
    /\ calls[1].op = "apply" /\ calls[1].res = "FieldIsImmutableError"

\* two provider calls for the same namespace, kind and name
SameTarget(x, y) == x.ns = y.ns /\ x.kind = y.kind /\ x.name = y.name

\* C10 as stated: after FieldIsImmutableError for a Service, Route or
\* Secret the recovery makes exactly one delete call followed by exactly
\* one apply call, for the same namespace, kind and name.
C10_Original ==
    \A c \in CellIds(ri) :
        ImmutableCase(c) =>
            /\ Len(calls) >= 3
            /\ calls[2].op = "delete" /\ calls[3].op = "apply"
            /\ SameTarget(calls[1], calls[2]) /\ SameTarget(calls[2], calls[3])
            /\ CallCount("delete") = 1 /\ CallCount("apply") = 2

\* C10 (amended): after FieldIsImmutableError for a Service, Route or
\* Secret the recovery makes exactly one delete call, for the namespace,
\* kind and name of the failed apply; when the delete succeeds exactly one
\* apply call for the same target follows it, and when the delete raises no
\* apply follows and apply() raises the error of the delete.
C10_ImmutableRecovery ==
    \A c \in CellIds(ri) :
        ImmutableCase(c) =>
            /\ Len(calls) >= 2
            /\ calls[2].op = "delete" /\ calls[2].cascade
            /\ SameTarget(calls[1], calls[2])
            /\ CallCount("delete") = 1
            /\ IF calls[2].res = "ok"
               THEN /\ Len(calls) >= 3
                    /\ calls[3].op = "apply"
                    /\ SameTarget(calls[2], calls[3])
                    /\ CallCount("apply") = 2
                    /\ last.raised = calls[3].res \/
                          (calls[3].res = "ok" /\ last.raised = "")
               ELSE /\ Len(calls) = 2
                    /\ CallCount("apply") = 1
                    /\ last.raised = calls[2].res

\* the recovery deleted the Service and applied it again
C10_Witness ==
    \E c \in CellIds(ri) :
        /\ ImmutableCase(c)
        /\ ri.cells[c].kind = "Service"
        /\ Len(calls) >= 3
        /\ calls[2].res = "ok" /\ calls[3].res = "ok"
        /\ live[c][last.name] = annotate(ri.cells[c].desired[last.name])

-----------------------------------------------------------------------------
(* C11 *)

\* the latest step is an apply() of a kind outside the allow-list whose
\* oc.apply raised FieldIsImmutableError
NotAllowedCase(c) ==
    /\ last.cell = c /\ last.op = "apply"
    /\ ri.cells[c].kind \notin ImmutableKinds
    /\ calls # <<>>
    /\ calls[1].op = "apply" /\ calls[1].res = "FieldIsImmutableError"

\* the error left apply() as it was raised, after the one provider call,
\* and the name has no Action
Propagated(c) ==
    /\ Len(calls) = 1
    /\ last.raised = "FieldIsImmutableError"
    /\ Count(c, "applied", last.name) = 0
    /\ live[c][last.name] = ri.cells[c].current[last.name]

-----------------------------------------------------------------------------
(* C12 *)

\* the object polled last is an applied Job that has not succeeded and has
\* a condition of type Failed
FailedJobRead ==
    /\ val.result # "none"
    /\ val.i <= Len(val.acts)
    /\ val.acts[val.i].kind = "Job"
    /\ val.read.status
    /\ val.read.succeeded \in {None, 0}
    /\ \E k \in 1..Len(val.read.conditions) :
          val.read.conditions[k].type = "Failed"

\* the reason of the first condition of type Failed
FailedReason ==
    LET cs == val.read.conditions
        k == CHOOSE k \in 1..Len(cs) :
                /\ cs[k].type = "Failed"
                /\ \A j \in 1..(k - 1) : cs[j].type # "Failed"
    IN  cs[k].reason

\* C12: polling an applied Job that has not succeeded and has a condition of
\* type Failed raises ValidationErrorJobFailed with the name of the Job and
\* the reason of that condition (of the first one, when there are several);
\* the retry wrapper makes no further attempt: its next step raises the
\* signal out of validate_data, in the same attempt.
C12_JobFailedIsFatal ==
    /\ [](FailedJobRead =>
            /\ val.sig = "ValidationErrorJobFailed"
            /\ val.msg = <<val.acts[val.i].name, FailedReason>>
            /\ val.result \in {"", "ValidationErrorJobFailed"})
    /\ [][val.sig = "ValidationErrorJobFailed" =>
            /\ val'.result = "ValidationErrorJobFailed"
            /\ val'.attempt = val.attempt
            /\ val'.i = val.i /\ val'.read = val.read
            /\ calls' = <<>>]_vars

\* a Job polled after retries, second in the list, with a Failed condition
\* that is not its first condition, ended validate_data with the fatal signal
C12_Witness ==
    /\ FailedJobRead
    /\ val.result = "ValidationErrorJobFailed"
    /\ val.attempt > 1 /\ val.attempt < max_attempts
    /\ val.i = 2
    /\ Len(val.read.conditions) = 2
    /\ val.read.conditions[1].type # "Failed"
    /\ val.msg[2] = "OOMKilled"

-----------------------------------------------------------------------------
(* C13 *)

\* the latest step made a provider call of one of these operations for the
\* name, and the call completed without error
Performed(ops, n) ==
    \E i \in 1..Len(calls) :
        calls[i].op \in ops /\ calls[i].name = n /\ calls[i].res = "ok"

\* C13 as stated: in a real run the turn that leaves an 'applied' Action for
\* a name made a provider apply, create or replace call for it that
\* completed without error.
C13_Original ==
    ~args.dry_run =>
        \A c \in CellIds(ri) : \A n \in NameSet :
            (Turn(c, n, "desired") /\ Count(c, "applied", n) > 0) =>
                Performed({"apply", "create", "replace"}, n)

\* an 'applied' Action for a name whose namespace is missing, after an
\* apply() that made no provider call
C13_NotApplied ==
    \E c \in CellIds(ri) : \E n \in NameSet :
        /\ ~args.dry_run
        /\ Turn(c, n, "desired")
        /\ Count(c, "applied", n) = 1
        /\ calls = <<>>
        /\ ~env.ns_exists /\ ri.cells[c].namespace # "cluster"
        /\ live[c][n] # annotate(ri.cells[c].desired[n])

-----------------------------------------------------------------------------
(* C14 *)

\* C14 as stated: in a real run the turn that leaves a 'deleted' Action for
\* a name made a provider delete call for it that completed without error.
C14_Original ==
    ~args.dry_run =>
        \A c \in CellIds(ri) : \A n \in NameSet :
            (Turn(c, n, "current") /\ Count(c, "deleted", n) > 0) =>
                Performed({"delete"}, n)

\* a 'deleted' Action for an object that delete() left on the cluster,
\* deletion being disabled
C14_NotDeleted ==
    \E c \in CellIds(ri) : \E n \in NameSet :
        /\ ~args.dry_run
        /\ Turn(c, n, "current")
        /\ Count(c, "deleted", n) = 1
        /\ ~pc[c].enable_deletion
        /\ calls = <<>>
        /\ live[c][n] # NoItem

-----------------------------------------------------------------------------
(* C15 *)

\* the desired-side loop of the cell is over
DesiredOver(c) == pc[c].phase \in {"current", "done"}

\* no object of the cell that is not desired has been deleted, and no
\* 'deleted' Action has been appended
NothingDeleted(c) ==
    \A n \in NameSet :
        ri.cells[c].desired[n] = NoItem =>
            /\ live[c][n] = ri.cells[c].current[n]
            /\ Count(c, "deleted", n) = 0

\* C15: within a cell every apply() of the desired-side loop, with its
\* provider calls, comes before the first delete() of the current-side
\* loop: at a desired-side turn nothing of the cell has been deleted, a
\* delete() is called only when the desired-side loop is over, the loop is
\* not entered again once it is over, and no 'deleted' Action precedes an
\* 'applied' Action in the list of the cell.
C15_ApplyBeforeDelete ==
    /\ [](\A c \in CellIds(ri) :
            /\ (last.cell = c /\ last.pass = "desired") => NothingDeleted(c)
            /\ (last.cell = c /\ last.op = "delete") => DesiredOver(c)
            /\ \A i \in 1..Len(actions[c]) : \A j \in 1..Len(actions[c]) :
                  (actions[c][i].action = "deleted"
                   /\ actions[c][j].action = "applied") => j < i)
    /\ [][\A c \in CellIds(ri) :
            /\ DesiredOver(c) => pc'[c].phase \in {"current", "done"}
            /\ (pc'[c] # pc[c] /\ last'.cell = c /\ last'.pass = "desired")
                  => pc[c].phase = "desired"]_vars

\* a cell whose desired item was applied by the provider and whose other
\* object was deleted by the provider afterwards
C15_Witness ==
    \E c \in CellIds(ri) :
        /\ last.cell = c /\ last.op = "delete" /\ Called("delete")
        /\ calls[1].res = "ok"
        /\ Count(c, "applied", Names[1]) = 1
        /\ Count(c, "deleted", Names[2]) = 1
        /\ live[c][Names[1]] = annotate(ri.cells[c].desired[Names[1]])
        /\ live[c][Names[1]] # ri.cells[c].current[Names[1]]

-----------------------------------------------------------------------------
(* C16 *)

\* an error was registered on the inventory, for a cluster or for none
AnyError == has_error_registered(ri, "") \/ ri.err_clusters # {}

\* C16: run() ends only when realize_data is through with every cell of
\* the inventory, with status 1 if an error was registered during the fetch
\* or the realize pass and with status 0 otherwise; while cells are being
\* processed the run has not exited.
C16_ExitStatus ==
    /\ hist.exit \in {-1, 0, 1}
    /\ hist.exit # -1 =>
          /\ \A c \in CellIds(ri) : pc[c].phase = "done"
          /\ hist.exit = 1 <=> AnyError
    /\ (\E c \in CellIds(ri) : ~Finished(c)) => hist.exit = -1

\* the run failed after a listing error on one cluster, with the cell of
\* the other cluster applied
C16_Witness ==
    /\ hist.exit = 1
    /\ \E c \in CellIds(ri) : \E d \in CellIds(ri) :
          /\ ClusterOf(c) # ClusterOf(d)
          /\ has_error_registered(ri, ClusterOf(c))
          /\ actions[c] = <<>>
          /\ Count(d, "applied", Names[1]) = 1

\* the run ended normally, with Actions and no error
C16_NormalExit ==
    /\ hist.exit = 0
    /\ ~AnyError
    /\ \A c \in CellIds(ri) : actions[c] # <<>>

-----------------------------------------------------------------------------
(* C17 *)

\* the latest step is a delete() whose provider delete call succeeded: the
\* step itself registered no error
Deleted(c) ==
    /\ last.cell = c /\ last.op = "delete"
    /\ Called("delete") /\ calls[1].res = "ok"

\* C17 as stated: no provider delete call is made once an error is
\* registered on the inventory; a delete() that went to the provider and
\* succeeded therefore finds no error registered.
C17_Original ==
    \A c \in CellIds(ri) :
        Deleted(c) => ~has_error_registered(ri, "")

\* a provider delete in a cell after the apply of a desired name of the
\* same cell failed and registered an error
C17_DeleteAfterError ==
    \E c \in CellIds(ri) :
        /\ Deleted(c)
        /\ has_error_registered(ri, "")
        /\ ~pc[c].err0
        /\ ri.cells[c].desired[Names[1]] # NoItem
        /\ Count(c, "applied", Names[1]) = 0
        /\ \A d \in CellIds(ri) \ {c} : pc[d].phase \in {"fetch", "ready"}

-----------------------------------------------------------------------------
(* C18 *)

\* the latest step is the listing of a cell, and it failed
ListingFailed(c) ==
    /\ last.cell = c /\ last.pass = "fetch"
    /\ calls # <<>> /\ calls[1].res # "ok"

\* the cluster of the cell has no error registered
Sound(c) == ~has_error_registered(ri, ClusterOf(c))

\* C18: a failed listing of a cell of cluster C registers an error for C,
\* ends only the fetch of that cell, without an exception, and leaves the
\* other cells and their fetch as they were; in the realize pass the cells
\* of C get no Action and no provider call, and a cell of a cluster with no
\* error enters its loops and has apply() go to the provider for every
\* desired item the chain applies.
C18_ClusterIsolation ==
    /\ [](\A c \in CellIds(ri) :
            /\ ListingFailed(c) =>
                  /\ has_error_registered(ri, ClusterOf(c))
                  /\ pc[c].phase = "ready"
            /\ ~Sound(c) =>
                  /\ actions[c] = <<>>
                  /\ PassStep(c) => calls = <<>>
            /\ (Sound(c) /\ last.cell = c /\ last.pass = "start"
                /\ Len(Keys(ri.cells[c].desired)) > 0) =>
                  pc[c].phase = "desired"
            /\ (Sound(c) /\ last.cell = c /\ last.pass = "desired"
                /\ NeedsApply(args, ri.cells[c].desired[last.name],
                              ri.cells[c].current[last.name])) =>
                  last.op = "apply" /\ Called("apply"))
    /\ [][\A c \in CellIds(ri) :
            (last'.cell = c /\ last'.pass = "fetch") =>
                \A d \in CellIds(ri) \ {c} :
                    /\ pc'[d] = pc[d]
                    /\ ri'.cells[d] = ri.cells[d]
                    /\ actions'[d] = actions[d]]_vars

\* the listing of a cell of one cluster failed, the cell got no Action, and
\* the desired item of the cell of the other cluster is applied
C18_Witness ==
    \E c \in CellIds(ri) : \E d \in CellIds(ri) :
        /\ ~Sound(c) /\ Sound(d)
        /\ pc[c].phase = "done" /\ actions[c] = <<>>
        /\ Len(Keys(ri.cells[c].desired)) > 0
        /\ last.cell = d /\ last.op = "apply"
        /\ Performed({"apply"}, Names[1])
        /\ Count(d, "applied", Names[1]) = 1


-----------------------------------------------------------------------------
(* C19: a client that cannot be resolved *)

\* the entries of the call: namespaces when only they are given, clusters
\* when only they are
Entries ==
    IF fs.mode # "fetch" \/ (fs.namespaces # <<>> /\ fs.clusters # <<>>)
    THEN <<>>
    ELSE IF fs.namespaces # <<>> THEN fs.namespaces ELSE fs.clusters

ByNamespace == fs.mode = "fetch" /\ fs.namespaces # <<>>

EntryCluster(i) ==
    IF ByNamespace THEN Entries[i].cluster ELSE Entries[i].name

EntryNamespace(i) == IF ByNamespace THEN Entries[i].name ELSE "cluster"

EntryManaged(i) ==
    IF ByNamespace THEN ManagedTypes(Entries[i], fs.omt) # {} ELSE TRUE

EntryClient(i) ==
    fs.ocs[<<EntryCluster(i),
             IF ByNamespace THEN Entries[i].clusterAdmin ELSE FALSE>>]

\* the entry stops init_specs_to_fetch with a KeyError
EntryRaises(i) ==
    /\ ByNamespace /\ EntryManaged(i) /\ EntryClient(i) = "ok"
    /\ Strange(Entries[i], ManagedTypes(Entries[i], fs.omt))
    /\ fs.omt \in {NoTypes, <<>>}

\* init_specs_to_fetch has come to the entry and found no client for it
UnresolvedEntry(i) ==
    /\ i \in 1..Len(Entries)
    /\ fs.phase # "init"
    /\ \A j \in 1..(i - 1) : ~EntryRaises(j)
    /\ EntryManaged(i)
    /\ EntryClient(i) # "ok"

NoSpecFor(i) ==
    /\ \A k \in 1..Len(fs.specs) :
          ~(/\ fs.specs[k].cluster = EntryCluster(i)
            /\ fs.specs[k].namespace = EntryNamespace(i))
    /\ \A key \in DOMAIN ri.cells :
          ~(key[1] = EntryCluster(i) /\ key[2] = EntryNamespace(i))

-----------------------------------------------------------------------------
(* C20: what fetch_current_state lists *)

SpecKey(k) ==
    CellKey(fs.specs[k].cluster, fs.specs[k].namespace, fs.specs[k].resource)

\* C20: fetch_current_state issues provider listings only for specs of type
\* "current", each (cluster, namespace, kind) at most once and, when the
\* call returns with no kind filtered out, exactly once; a "desired" spec
\* never causes a listing or an add_current call.
C20_Original ==
    fs.mode = "fetch" =>
        /\ \A k \in fs.listed : fs.specs[k].type = "current"
        /\ \A k \in fs.added : fs.specs[k].type = "current"
        /\ \A k1 \in fs.listed : \A k2 \in fs.listed :
              SpecKey(k1) = SpecKey(k2) => k1 = k2
        /\ (fs.phase = "returned" /\ fs.api = {}) =>
              \A key \in DOMAIN ri.cells :
                 \E k \in fs.listed : SpecKey(k) = key

\* the call has returned, a kind of the cluster was listed for its "current"
\* spec and again for its "desired" spec, and both listings were added
C20_DesiredListed ==
    /\ fs.mode = "fetch" /\ fs.phase = "returned"
    /\ \E k1 \in fs.added : \E k2 \in fs.added :
          /\ fs.specs[k1].type = "current"
          /\ fs.specs[k2].type = "desired"
          /\ SpecKey(k1) = SpecKey(k2)


-----------------------------------------------------------------------------
(* C21: the "current" specs of a namespace *)

\* init_specs_to_fetch has returned its list
InitReturned ==
    fs.mode = "fetch" /\ fs.phase # "init" /\ fs.raised # "KeyError"

\* the "current" specs of entry i for a kind
CurrentSpecs(i, kind) ==
    {k \in 1..Len(fs.specs) :
        /\ fs.specs[k].type = "current"
        /\ fs.specs[k].cluster = EntryCluster(i)
        /\ fs.specs[k].namespace = EntryNamespace(i)
        /\ fs.specs[k].resource = kind}

\* the names the namespace lists for a kind, AllNames when it lists none
ListedNames(info, kind) ==
    LET ms == SelectSeq(info.managedResourceNames,
                        LAMBDA m : m.resource = kind)
    IN  IF ms = <<>> THEN AllNames ELSE ms[Len(ms)].resourceNames

\* C21: once init_specs_to_fetch has returned, a namespace with a non-empty
\* effective managed set and a resolved client has exactly one "current"
\* spec per kind of the set and none for another kind, restricted to the
\* names the namespace lists for the kind and generic when it lists none; a
\* namespace with an empty effective set has no spec and no cell.
C21_OneCurrentSpecPerKind ==
    (InitReturned /\ ByNamespace) =>
        \A i \in 1..Len(Entries) :
            LET managed == ManagedTypes(Entries[i], fs.omt)
            IN  /\ (managed # {} /\ EntryClient(i) = "ok") =>
                      \A kind \in FetchKindSet \cup {"Route"} :
                         /\ Cardinality(CurrentSpecs(i, kind))
                               = IF kind \in managed THEN 1 ELSE 0
                         /\ \A k \in CurrentSpecs(i, kind) :
                               fs.specs[k].resource_names
                                  = ListedNames(Entries[i], kind)
                /\ managed = {} => NoSpecFor(i)

\* a namespace with two managed kinds, names listed for one of them: a
\* restricted and a generic spec
C21_Witness ==
    /\ InitReturned /\ ByNamespace
    /\ Entries[1].managedResourceTypes = {"ConfigMap", "Secret"}
    /\ fs.omt = NoTypes
    /\ \E k \in CurrentSpecs(1, "ConfigMap") :
          fs.specs[k].resource_names = {"n1"}
    /\ \E k \in CurrentSpecs(1, "Secret") :
          fs.specs[k].resource_names = AllNames

\* a namespace whose effective managed set is empty, next to one with specs
C21_EmptySet ==
    /\ InitReturned /\ ByNamespace /\ Len(Entries) = 2
    /\ ManagedTypes(Entries[1], fs.omt) = {}
    /\ NoSpecFor(1) /\ Len(fs.specs) > 0


-----------------------------------------------------------------------------
(* C22: entries of a kind that is not managed *)

\* only namespaces were given
OnlyNamespaces == ByNamespace /\ fs.clusters = <<>>

\* the effective managed set of entry i
Effective(i) ==
    IF fs.omt = NoTypes THEN Entries[i].managedResourceTypes
    ELSE Range(fs.omt)

\* the kinds the entry's name restrictions and type overrides refer to
Referred(i) ==
    {Entries[i].managedResourceNames[j].resource :
        j \in 1..Len(Entries[i].managedResourceNames)}
    \cup {Entries[i].managedResourceTypeOverrides[j].resource :
            j \in 1..Len(Entries[i].managedResourceTypeOverrides)}

RefersOutside(i) == Referred(i) \ Effective(i) # {}

\* the namespace is processed: its effective set is not empty and its
\* client is resolved
Processed(i) == Effective(i) # {} /\ EntryClient(i) = "ok"

\* C22 as stated: a KeyError whenever an entry refers to a kind outside the
\* effective managed set and no override_managed_types was supplied; with
\* override_managed_types no KeyError and no spec for that kind.
C22_Original ==
    (OnlyNamespaces /\ fs.phase # "init") =>
        /\ (fs.omt = NoTypes /\ \E i \in 1..Len(Entries) : RefersOutside(i))
              => fs.raised = "KeyError"
        /\ fs.omt # NoTypes =>
              /\ fs.raised # "KeyError"
              /\ \A i \in 1..Len(Entries) : \A kind \in Referred(i) :
                    kind \notin Effective(i) => CurrentSpecs(i, kind) = {}

\* C22, amended: init_specs_to_fetch raises KeyError exactly when no
\* override_managed_types was supplied and a namespace that is processed
\* (non-empty effective set, client resolved) has an entry of a kind outside
\* its effective set; with override_managed_types no KeyError is raised and
\* no spec is made for that kind.
C22_StrangeEntries ==
    (OnlyNamespaces /\ fs.phase # "init") =>
        /\ fs.raised = "KeyError" <=>
              /\ fs.omt = NoTypes
              /\ \E i \in 1..Len(Entries) : Processed(i) /\ RefersOutside(i)
        /\ fs.omt # NoTypes =>
              /\ fs.raised # "KeyError"
              /\ \A i \in 1..Len(Entries) : \A kind \in Referred(i) :
                    kind \notin Effective(i) => CurrentSpecs(i, kind) = {}

\* no list supplied, the namespace processed, an override of a kind that is
\* not managed: KeyError
C22_Witness ==
    /\ OnlyNamespaces /\ fs.phase = "raised" /\ fs.raised = "KeyError"
    /\ fs.omt = NoTypes /\ Processed(1)
    /\ "Secret" \in Referred(1) \ Effective(1)

\* a list supplied, names listed for a kind outside it: specs for the kinds
\* of the list only
C22_Skipped ==
    /\ OnlyNamespaces /\ InitReturned /\ fs.omt = <<"ConfigMap">>
    /\ Processed(1) /\ "Route" \in Referred(1)
    /\ CurrentSpecs(1, "Route") = {} /\ CurrentSpecs(1, "ConfigMap") # {}


-----------------------------------------------------------------------------
(* C23: a failed apply does not end the cell *)

\* the latest step is a desired-side turn of cell c whose apply() raised a
\* StatusCodeError
ApplyFailed(c) ==
    /\ last.cell = c /\ last.pass = "desired" /\ last.op = "apply"
    /\ last.raised = "StatusCodeError"

\* the place of a name in the desired-side loop of cell c
DesiredIndex(c, n) ==
    CHOOSE i \in 1..Len(Keys(ri.cells[c].desired)) :
        Keys(ri.cells[c].desired)[i] = n

\* C23: when apply() raises a StatusCodeError for a desired name of a cell,
\* an error is registered and the cell goes on: the loop is at the next
\* desired name if there is one, else at the first current item if there is
\* one, else over; and at every desired-side turn, also after an error, an
\* item the chain applies has apply() go to the provider.
C23_CellGoesOn ==
    \A c \in CellIds(ri) :
        /\ ApplyFailed(c) =>
              LET i == DesiredIndex(c, last.name)
              IN  /\ has_error_registered(ri, "")
                  /\ IF i < Len(Keys(ri.cells[c].desired))
                     THEN pc[c].phase = "desired" /\ pc[c].i = i + 1
                     ELSE IF Len(Keys(ri.cells[c].current)) > 0
                     THEN pc[c].phase = "current" /\ pc[c].i = 1
                     ELSE pc[c].phase = "done"
        /\ (last.cell = c /\ last.pass = "desired"
            /\ NeedsApply(args, ri.cells[c].desired[last.name],
                          ri.cells[c].current[last.name])) =>
              last.op = "apply" /\ Called("apply")

\* the apply of the first desired name of a cell failed and the second
\* desired name of the cell is applied
C23_Witness ==
    \E c \in CellIds(ri) :
        /\ Turn(c, Names[2], "desired") /\ last.op = "apply"
        /\ Performed({"apply"}, Names[2])
        /\ Count(c, "applied", Names[2]) = 1
        /\ ri.cells[c].desired[Names[1]] # NoItem
        /\ Count(c, "applied", Names[1]) = 0
        /\ has_error_registered(ri, "")

\* the apply of the desired name of a cell failed and the current-side loop
\* of the cell comes to the object that is not desired
C23_CurrentPassRuns ==
    \E c \in CellIds(ri) :
        /\ Turn(c, Names[2], "current") /\ last.op = "delete"
        /\ ri.cells[c].desired[Names[1]] # NoItem
        /\ Count(c, "applied", Names[1]) = 0
        /\ has_error_registered(ri, "")


-----------------------------------------------------------------------------
(* C24: no_dry_run_skip_compare *)

\* a desired name with a current item, in a real run that skips the compare
SkipCase(c, n) ==
    /\ ri.cells[c].desired[n] # NoItem
    /\ ri.cells[c].current[n] # NoItem
    /\ SkipCompare

\* C24 as stated: with the name present in current, in a real run with
\* no_dry_run_skip_compare, the item is skipped: no provider call and no
\* 'applied' Action.
C24_Original ==
    \A c \in CellIds(ri) : \A n \in NameSet :
        (SkipCase(c, n) /\ Turn(c, n, "desired")) => PassedOver(c, n)

\* C24, amended: with the name present in current, in a real run with
\* no_dry_run_skip_compare, the comparison is skipped and apply() is called
\* for the item whatever the current item is; the 'applied' Action is
\* appended when apply() returns, and a provider apply that succeeds leaves
\* the annotated desired item on the cluster.
C24_SkipCompareApplies ==
    \A c \in CellIds(ri) : \A n \in NameSet :
        (SkipCase(c, n) /\ Turn(c, n, "desired")) =>
            /\ last.op = "apply"
            /\ Count(c, "applied", n) = IF last.raised = "" THEN 1 ELSE 0
            /\ (last.raised = "" /\ Called("apply")) =>
                  live[c][n] = annotate(ri.cells[c].desired[n])

\* the current item equals the desired one and carries a valid hash, and
\* the run that skips the compare applies the desired item all the same
C24_Witness ==
    \E c \in CellIds(ri) : \E n \in NameSet :
        /\ SkipCase(c, n) /\ Turn(c, n, "desired")
        /\ ItemEq(ri.cells[c].desired[n], ri.cells[c].current[n])
        /\ has_valid_sha256sum(ri.cells[c].current[n])
        /\ AppliedOnce(c, n) /\ Performed({"apply"}, n)


-----------------------------------------------------------------------------
(* C25: take-over with a caller *)

\* a realize call with a caller and take_over, and a current item that is
\* structurally equal to the desired one
TakeOverCase(c, n) ==
    /\ args.caller # "" /\ args.take_over
    /\ ri.cells[c].desired[n] # NoItem
    /\ ri.cells[c].current[n] # NoItem
    /\ ItemEq(ri.cells[c].desired[n], ri.cells[c].current[n])

\* the hashes of the two items are equal and the stored hash of the current
\* item is valid
HashesAgree(c, n) ==
    /\ sha256sum(ri.cells[c].current[n]) = sha256sum(ri.cells[c].desired[n])
    /\ has_valid_sha256sum(ri.cells[c].current[n])

\* C25: with a caller and take_over, a current item structurally equal to
\* the desired one is passed over only when the hashes are equal and the
\* stored hash is valid, and apply() is called for it otherwise; with valid
\* equal hashes it is passed over unless the compare is skipped.
C25_NoEqualityFastPath ==
    \A c \in CellIds(ri) : \A n \in NameSet :
        (TakeOverCase(c, n) /\ Turn(c, n, "desired")) =>
            IF HashesAgree(c, n) /\ ~SkipCompare
            THEN PassedOver(c, n)
            ELSE last.op = "apply"

\* an annotated current item equal to the desired one whose stored hash is
\* stale: the run with caller and take_over applies the desired item
C25_Witness ==
    \E c \in CellIds(ri) : \E n \in NameSet :
        /\ TakeOverCase(c, n) /\ Turn(c, n, "desired")
        /\ has_qontract_annotations(ri.cells[c].current[n])
        /\ ~has_valid_sha256sum(ri.cells[c].current[n])
        /\ ~SkipCompare
        /\ AppliedOnce(c, n)

\* an equal current item with a valid hash is passed over by the hash path
C25_HashSkip ==
    \E c \in CellIds(ri) : \E n \in NameSet :
        /\ TakeOverCase(c, n) /\ Turn(c, n, "desired")
        /\ HashesAgree(c, n) /\ PassedOver(c, n)


-----------------------------------------------------------------------------
(* C26: owner references *)

\* a current item that is not desired and carries an owner reference
Owned(c, n) ==
    /\ ri.cells[c].desired[n] = NoItem
    /\ ri.cells[c].current[n] # NoItem
    /\ has_owner_reference(ri.cells[c].current[n])

\* C26: a current item that is absent from desired and carries an owner
\* reference gets no delete() call, no provider delete and no 'deleted'
\* Action, and stays on the cluster, whatever take_over, the caller and the
\* annotations of the item are.
C26_OwnedIsKept ==
    \A c \in CellIds(ri) : \A n \in NameSet :
        Owned(c, n) =>
            /\ Count(c, "deleted", n) = 0
            /\ Turn(c, n, "current") => last.op = "" /\ calls = <<>>
            /\ live[c][n] = ri.cells[c].current[n]

\* the current-side loop passes over an owned item that the run would
\* delete otherwise: annotated under the caller of the run, deletion
\* enabled, not a dry run
C26_Witness ==
    \E c \in CellIds(ri) : \E n \in NameSet :
        /\ Owned(c, n) /\ Turn(c, n, "current")
        /\ has_qontract_annotations(ri.cells[c].current[n])
        /\ ri.cells[c].current[n].caller = args.caller
        /\ pc[c].enable_deletion /\ ~args.dry_run

\* the same for an owned item without annotations in a take-over
C26_TakeOver ==
    \E c \in CellIds(ri) : \E n \in NameSet :
        /\ Owned(c, n) /\ Turn(c, n, "current")
        /\ ~has_qontract_annotations(ri.cells[c].current[n])
        /\ args.take_over
        /\ pc[c].enable_deletion /\ ~args.dry_run


-----------------------------------------------------------------------------
(* C27: the recovery from InvalidValueApplyError *)

\* the latest step is an apply() whose first oc.apply raised
\* InvalidValueApplyError
InvalidValueCase(c) ==
    /\ last.cell = c /\ last.op = "apply"
    /\ calls # <<>>
    /\ calls[1].op = "apply" /\ calls[1].res = "InvalidValueApplyError"

\* C27 as stated: after InvalidValueApplyError the recovery removes the
\* annotation exactly once and retries the apply exactly once; a failed
\* retry propagates with nothing after it.
C27_Original ==
    \A c \in CellIds(ri) :
        InvalidValueCase(c) =>
            /\ CallCount("remove_last_applied_configuration") = 1
            /\ CallCount("apply") = 2
            /\ Len(calls) >= 3 /\ calls[3].op = "apply"
            /\ calls[3].res # "ok" =>
                  Len(calls) = 3 /\ last.raised = calls[3].res

\* C27, amended: after InvalidValueApplyError the recovery calls
\* remove_last_applied_configuration exactly once, for the target of the
\* failed apply; when the removal succeeds the apply is retried exactly
\* once, and a failed retry propagates with no call after it; when the
\* removal raises no retry is made and its error propagates. One apply()
\* makes at most two provider apply calls.
C27_OneShotRetry ==
    \A c \in CellIds(ri) :
        /\ (last.cell = c /\ last.op = "apply") => CallCount("apply") <= 2
        /\ InvalidValueCase(c) =>
              /\ Len(calls) >= 2
              /\ calls[2].op = "remove_last_applied_configuration"
              /\ SameTarget(calls[1], calls[2])
              /\ CallCount("remove_last_applied_configuration") = 1
              /\ IF calls[2].res = "ok"
                 THEN /\ Len(calls) >= 3
                      /\ calls[3].op = "apply"
                      /\ SameTarget(calls[2], calls[3])
                      /\ CallCount("apply") = 2
                      /\ IF calls[3].res = "ok" THEN last.raised = ""
                         ELSE Len(calls) = 3 /\ last.raised = calls[3].res
                 ELSE /\ Len(calls) = 2
                      /\ CallCount("apply") = 1
                      /\ last.raised = calls[2].res

\* the retry failed as the first apply did, and the error left apply()
C27_Witness ==
    \E c \in CellIds(ri) :
        /\ InvalidValueCase(c)
        /\ Len(calls) = 3
        /\ calls[2].res = "ok"
        /\ calls[3].res = "InvalidValueApplyError"
        /\ last.raised = "InvalidValueApplyError"
        /\ Count(c, "applied", last.name) = 0

\* the retry succeeded
C27_Recovered ==
    \E c \in CellIds(ri) :
        /\ InvalidValueCase(c)
        /\ calls[2].res = "ok" /\ calls[3].res = "ok"
        /\ live[c][last.name] = annotate(ri.cells[c].desired[last.name])


-----------------------------------------------------------------------------
(* C28: the recovery by create or replace *)

\* the latest step is an apply() whose first oc.apply raised
\* MetaDataAnnotationsTooLongApplyError or UnsupportedMediaTypeError
TooLongCase(c) ==
    /\ last.cell = c /\ last.op = "apply"
    /\ calls # <<>>
    /\ calls[1].op = "apply"
    /\ calls[1].res \in {"MetaDataAnnotationsTooLongApplyError",
                         "UnsupportedMediaTypeError"}

\* C28: after annotations-too-long or unsupported-media-type the recovery
\* calls exactly one of create and replace: create when the object is not on
\* the cluster, replace when it is.
C28_Original ==
    \A c \in CellIds(ri) :
        TooLongCase(c) =>
            /\ CallCount("create") + CallCount("replace") = 1
            /\ IF ri.cells[c].current[last.name] = NoItem
               THEN CallCount("create") = 1
               ELSE CallCount("replace") = 1

\* the object was not on the cluster: the recovery created it and replaced
\* it right after
C28_CreateAndReplace ==
    \E c \in CellIds(ri) :
        /\ TooLongCase(c)
        /\ ri.cells[c].current[last.name] = NoItem
        /\ Len(calls) >= 3
        /\ calls[2].op = "create" /\ calls[2].res = "ok"
        /\ calls[3].op = "replace"
        /\ SameTarget(calls[2], calls[3])


-----------------------------------------------------------------------------
(* C29: the recovery from MayNotChangeOnceSetError *)

\* the latest step is an apply() whose first oc.apply raised
\* MayNotChangeOnceSetError or PrimaryClusterIPCanNotBeUnsetError
MayNotChangeCase(c) ==
    /\ last.cell = c /\ last.op = "apply"
    /\ calls # <<>>
    /\ calls[1].op = "apply"
    /\ calls[1].res \in {"MayNotChangeOnceSetError",
                         "PrimaryClusterIPCanNotBeUnsetError"}

\* C29: after may-not-change-once-set or primary-cluster-IP-cannot-be-unset
\* the recovery deletes and applies again only for a Service; for any other
\* kind no provider call follows the failed apply, the error leaves apply(),
\* no 'applied' Action is appended and the object stays as it was.
C29_ServiceOnly ==
    \A c \in CellIds(ri) :
        MayNotChangeCase(c) =>
            IF ri.cells[c].kind = "Service"
            THEN /\ Len(calls) >= 2
                 /\ calls[2].op = "delete"
                 /\ SameTarget(calls[1], calls[2])
                 /\ calls[2].res = "ok" =>
                       /\ Len(calls) >= 3
                       /\ calls[3].op = "apply"
                       /\ SameTarget(calls[2], calls[3])
            ELSE /\ Len(calls) = 1
                 /\ CallCount("delete") = 0
                 /\ last.raised = calls[1].res
                 /\ Count(c, "applied", last.name) = 0
                 /\ live[c][last.name] = ri.cells[c].current[last.name]

\* the apply of a Route or a Secret failed so, and the error left apply()
C29_Witness ==
    \E c \in CellIds(ri) :
        /\ MayNotChangeCase(c)
        /\ ri.cells[c].kind \in {"Route", "Secret"}
        /\ last.raised = calls[1].res
        /\ has_error_registered(ri, "")

\* the apply of a Service failed so, and the Service was deleted and applied
C29_Recovered ==
    \E c \in CellIds(ri) :
        /\ MayNotChangeCase(c)
        /\ ri.cells[c].kind = "Service"
        /\ Len(calls) >= 3 /\ calls[2].res = "ok" /\ calls[3].res = "ok"
        /\ live[c][last.name] = annotate(ri.cells[c].desired[last.name])


-----------------------------------------------------------------------------
(* C30: the recovery of a StatefulSet *)

\* the latest step is an apply() whose first oc.apply raised
\* StatefulSetUpdateForbidden
ForbiddenCase(c) ==
    /\ last.cell = c /\ last.op = "apply"
    /\ calls # <<>>
    /\ calls[1].op = "apply" /\ calls[1].res = "StatefulSetUpdateForbidden"

\* the places of the calls of one kind in the latest step
Places(op) == {i \in 1..Len(calls) : calls[i].op = op}

\* the storage size of the StatefulSet on the cluster is not the desired one
ResizeRequired(c, n) ==
    get_storage(ri.cells[c].current[n].body)
        # get_storage(annotate(ri.cells[c].desired[n]).body)

\* C30: in the recovery of a StatefulSet the claims of the owned pods are
\* looked up before the delete, and only when the storage size changes; the
\* one delete is made without cascade; an apply after the first follows the
\* delete; resize_pvcs is called only when the storage size changed, after
\* the second apply, on the claims looked up and with the desired size, and
\* it is called whenever the size changed and the delete and the apply went
\* through. For another kind the failed apply is the only call and its
\* error leaves apply().
C30_StatefulSetOrder ==
    \A c \in CellIds(ri) :
        ForbiddenCase(c) =>
            IF ri.cells[c].kind # "StatefulSet"
            THEN /\ Len(calls) = 1
                 /\ last.raised = calls[1].res
                 /\ live[c][last.name] = ri.cells[c].current[last.name]
            ELSE /\ Cardinality(Places("delete")) = 1
                 /\ \A d \in Places("delete") :
                       /\ ~calls[d].cascade
                       /\ SameTarget(calls[1], calls[d])
                       /\ \A g \in Places("get_owned_pods") : g < d
                       /\ \A p \in Places("apply") \ {1} :
                             d < p /\ calls[d].res = "ok"
                       /\ calls[d].res = "ok" =>
                             Cardinality(Places("apply")) = 2
                 /\ Cardinality(Places("get_owned_pods"))
                       = IF ResizeRequired(c, last.name) THEN 1 ELSE 0
                 /\ \A z \in Places("resize_pvcs") :
                       /\ ResizeRequired(c, last.name)
                       /\ \E p \in Places("apply") \ {1} :
                             p < z /\ calls[p].res = "ok"
                       /\ \E g \in Places("get_owned_pods") :
                             calls[z].pvcs = calls[g].pvcs
                       /\ calls[z].pvcs
                             = owned_pvc_names(ri.cells[c].current[last.name],
                                               last.name)
                       /\ calls[z].size
                             = get_storage(
                                 annotate(ri.cells[c].desired[last.name]).body)
                 /\ Cardinality(Places("resize_pvcs")) =
                       IF /\ ResizeRequired(c, last.name)
                          /\ \E p \in Places("apply") \ {1} :
                                calls[p].res = "ok"
                       THEN 1 ELSE 0

\* the storage size changed: the claims were looked up, the StatefulSet was
\* deleted without cascade and applied, and the claims were resized
C30_Witness ==
    \E c \in CellIds(ri) :
        /\ ForbiddenCase(c)
        /\ ri.cells[c].kind = "StatefulSet"
        /\ ResizeRequired(c, last.name)
        /\ Len(calls) >= 5
        /\ calls[2].op = "get_owned_pods" /\ calls[3].op = "delete"
        /\ calls[4].op = "apply" /\ calls[5].op = "resize_pvcs"
        /\ calls[5].res = "ok" /\ calls[5].pvcs # {}
        /\ last.raised = ""

\* the storage size did not change: no lookup and no resize
C30_SameSize ==
    \E c \in CellIds(ri) :
        /\ ForbiddenCase(c)
        /\ ri.cells[c].kind = "StatefulSet"
        /\ ~ResizeRequired(c, last.name)
        /\ Len(calls) >= 3 /\ calls[3].res = "ok"
        /\ Places("resize_pvcs") = {}

\* the apply of another kind failed so, and the error left apply()
C30_OtherKind ==
    \E c \in CellIds(ri) :
        /\ ForbiddenCase(c)
        /\ ri.cells[c].kind = "Service"
        /\ last.raised = "StatefulSetUpdateForbidden"


-----------------------------------------------------------------------------
(* C31: recycle_pods *)

\* the latest step is an apply() of cell c that returned
ApplyReturned(c) ==
    last.cell = c /\ last.op = "apply" /\ last.raised = ""

\* apply() returned before its try block: no client, or a real run in a
\* namespace that does not exist and is not waited for
ReturnedEarly(c) ==
    \/ ~env.oc_ok[ri.cells[c].use_admin_token[last.name]]
    \/ /\ ~args.dry_run
       /\ ri.cells[c].namespace # "cluster"
       /\ ~env.ns_exists

\* C31 as stated: after every apply() that does not raise, in a dry run or
\* not, recycle_pods is called once when it is requested and not at all when
\* it is not.
C31_Original ==
    \A c \in CellIds(ri) :
        ApplyReturned(c) =>
            CallCount("recycle_pods") = IF args.recycle_pods THEN 1 ELSE 0

\* C31, amended: after every apply() that resolved its client, found or
\* waited for its namespace and did not raise, in a dry run or not,
\* recycle_pods is called once, as the last call and for the resource, when
\* it is requested; it is not called when it is not requested, when apply()
\* returned early or when apply() raised.
C31_RecyclePods ==
    \A c \in CellIds(ri) :
        /\ ApplyReturned(c) =>
              /\ CallCount("recycle_pods")
                    = IF args.recycle_pods /\ ~ReturnedEarly(c) THEN 1 ELSE 0
              /\ \A i \in 1..Len(calls) :
                    calls[i].op = "recycle_pods" =>
                        /\ i = Len(calls)
                        /\ calls[i].name = last.name
                        /\ calls[i].kind = ri.cells[c].kind
                        /\ calls[i].ns = ri.cells[c].namespace
        /\ (last.cell = c /\ last.op = "apply" /\ last.raised # "") =>
              CallCount("recycle_pods") = 0

\* a dry run: recycle_pods is the only call of apply()
C31_Witness ==
    \E c \in CellIds(ri) :
        /\ ApplyReturned(c) /\ args.dry_run /\ args.recycle_pods
        /\ Len(calls) = 1 /\ calls[1].op = "recycle_pods"

\* a real run: recycle_pods follows the provider apply
C31_RealRun ==
    \E c \in CellIds(ri) :
        /\ ApplyReturned(c) /\ ~args.dry_run /\ args.recycle_pods
        /\ Len(calls) = 2 /\ calls[1].op = "apply"
        /\ calls[2].op = "recycle_pods"


-----------------------------------------------------------------------------
(* C32: the replicas of a Deployment, DeploymentConfig or StatefulSet *)

\* an object with a status was polled at the latest turn of the loop, and
\* the action it was polled for
Polled == val.result # "none" /\ val.read.status

PolledAction ==
    IF val.sig = "" THEN val.acts[val.i - 1] ELSE val.acts[val.i]

\* the turn found the object valid and went on
Accepted == val.sig = ""

ReplicasPolled ==
    /\ Polled
    /\ PolledAction.kind \in {"Deployment", "DeploymentConfig", "StatefulSet"}

\* C32: an applied Deployment, DeploymentConfig or StatefulSet with a
\* status is accepted exactly when spec.replicas is 0 or spec.replicas,
\* status.replicas, status.readyReplicas and status.updatedReplicas are all
\* equal, and raises ValidationError in every other case.
C32_Original ==
    ReplicasPolled =>
        IF \/ val.read.spec_replicas = 0
           \/ /\ val.read.spec_replicas = val.read.replicas
              /\ val.read.replicas = val.read.readyReplicas
              /\ val.read.readyReplicas = val.read.updatedReplicas
        THEN Accepted
        ELSE val.sig = "ValidationError"

\* an object that asks for replicas and has none yet is accepted, and
\* validate_data returns
C32_NoneReadyAccepted ==
    /\ ReplicasPolled
    /\ val.read.spec_replicas > 0
    /\ val.read.replicas = 0
    /\ val.read.readyReplicas # val.read.spec_replicas
    /\ val.result = "ok"


-----------------------------------------------------------------------------
(* C33: an object without a status *)

\* the latest step polled an object and found no status, or an empty one
NoStatusPolled ==
    /\ val.result # "none"
    /\ Called("get")
    /\ ~val.read.status

\* C33: for an applied action of any supported kind, an object with a
\* missing or empty status raises ValidationError('status'); it is not
\* accepted and does not raise the fatal signal, and being retryable it does
\* not leave validate_data at this step.
C33_NoStatusIsRetryable ==
    NoStatusPolled =>
        /\ val.sig = "ValidationError"
        /\ val.msg = <<"status">>
        /\ val.result = ""
        /\ val.i <= Len(val.acts)
        /\ val.acts[val.i].kind \in supported_kinds

\* a Job polled without a status, in a later attempt
C33_Witness ==
    /\ NoStatusPolled
    /\ val.acts[val.i].kind = "Job"
    /\ val.sig = "ValidationError"
    /\ val.attempt > 1


-----------------------------------------------------------------------------
(* C34: validation ends *)

\* C34: validate_data makes at most max_attempts attempts and ends: a
\* ValidationError before the last attempt starts the next attempt, a
\* ValidationError at the last attempt is raised to the caller, and a loop
\* that passes every action returns without error.
C34_PollingTerminates ==
    /\ [](/\ val.attempt \in 1..max_attempts
          /\ val.result = "ok" =>
                val.sig = "" /\ val.i = Len(val.acts) + 1
          /\ val.result = "ValidationError" => val.attempt = max_attempts)
    /\ [][/\ (val.sig = "ValidationError" /\ val.attempt < max_attempts) =>
                val'.attempt = val.attempt + 1 /\ val'.result = ""
          /\ (val.sig = "ValidationError" /\ val.attempt = max_attempts
              /\ val.result = "") =>
                val'.result = "ValidationError"
          /\ (Validating /\ val.i > Len(val.acts)) => val'.result = "ok"
          /\ val.result # "" => val' = val]_vars
    /\ <>(val.result # "")

\* the resource was not ready at the last attempt either, and the error
\* left validate_data
C34_Witness ==
    /\ val.result = "ValidationError"
    /\ val.attempt = max_attempts
    /\ val.i = 2

\* every action was ready at the first attempt
C34_AllReady ==
    /\ val.result = "ok" /\ val.attempt = 1
    /\ Polled /\ PolledAction.kind = "Job"


-----------------------------------------------------------------------------
(* C35: ClowdJobInvocation *)

CJIPolled ==
    /\ Polled
    /\ PolledAction.kind = "ClowdJobInvocation"

HasFailedJob == \E k \in 1..Len(val.read.jobMap) : val.read.jobMap[k] = "Failed"

\* C35: a polled ClowdJobInvocation that completed with a Failed job raises
\* the fatal signal, which leaves validate_data without another attempt; one
\* that completed with no Failed job is valid; one that has not completed
\* raises the retryable ValidationError, a Failed job in its jobMap or not,
\* and is polled again while attempts remain.
C35_ClowdJobInvocation ==
    /\ [](CJIPolled =>
            /\ (val.read.completed /\ HasFailedJob) =>
                    val.sig = "ValidationErrorJobFailed"
            /\ (val.read.completed /\ ~HasFailedJob) => Accepted
            /\ ~val.read.completed => val.sig = "ValidationError")
    /\ [][(CJIPolled /\ val.result = "") =>
            /\ val.sig = "ValidationErrorJobFailed" =>
                    /\ val'.result = "ValidationErrorJobFailed"
                    /\ val'.attempt = val.attempt
            /\ (val.sig = "ValidationError" /\ val.attempt < max_attempts) =>
                    /\ val'.result = ""
                    /\ val'.attempt = val.attempt + 1]_vars

\* not completed, a job already Failed: the signal is the retryable one
C35_Witness ==
    /\ CJIPolled
    /\ ~val.read.completed /\ HasFailedJob
    /\ val.sig = "ValidationError"
    /\ val.attempt > 1

\* completed with a Failed job: fatal at the first attempt
C35_Fatal ==
    /\ CJIPolled
    /\ val.read.completed /\ HasFailedJob
    /\ val.result = "ValidationErrorJobFailed"
    /\ val.attempt = 1

\* completed, no Failed job: valid
C35_Valid ==
    /\ CJIPolled
    /\ val.read.completed /\ val.read.jobMap = <<"Complete">>
    /\ val.result = "ok"


-----------------------------------------------------------------------------
(* C36: order within an attempt *)

\* the step polls the action at position val.i
PollsCurrent ==
    /\ Len(calls') = 1
    /\ calls'[1].op = "get"
    /\ calls'[1].kind = val.acts[val.i].kind
    /\ calls'[1].name = val.acts[val.i].name

\* C36: within an attempt the actions are looked at in list order, one
\* position at a time, and the position advances only past an action that
\* is not polled or was found ready; the first signal ends the attempt, no
\* later action being polled in it; a new attempt starts at position 1; so
\* a signal at position i, the fatal one included, is raised only after
\* every action before i was passed in the same attempt.
C36_InOrder ==
    [][/\ Len(calls') > 0 =>
            /\ Validating /\ val.sig = ""
            /\ PollsCurrent
            /\ val'.attempt = val.attempt
       /\ (val'.attempt = val.attempt /\ val'.i # val.i) =>
            /\ val.sig = "" /\ val'.sig = ""
            /\ val'.i = val.i + 1
            /\ \/ PollsCurrent /\ val'.read.status
               \/ Len(calls') = 0 /\ NotPolled(val.acts[val.i], val.oc)
       /\ val'.sig # "" => val'.i = val.i
       /\ val.sig # "" =>
            /\ Len(calls') = 0
            /\ \/ val'.result = val.sig /\ val'.i = val.i
               \/ /\ val.sig = "ValidationError"
                  /\ val'.attempt = val.attempt + 1
                  /\ val'.i = 1 /\ val'.sig = ""
       /\ val'.attempt # val.attempt =>
            /\ val'.attempt = val.attempt + 1
            /\ val'.i = 1]_vars

\* the fatal signal of the second action, in an attempt after the first: the
\* first action, ready, was polled again before it
C36_Witness ==
    /\ val.sig = "ValidationErrorJobFailed"
    /\ val.i = 2
    /\ val.attempt > 1
    /\ ~NotPolled(val.acts[1], val.oc)

\* the first action not ready: the second is not polled in this attempt
C36_FirstNotReady ==
    /\ val.sig = "ValidationError"
    /\ val.i = 1
    /\ val.attempt > 1
    /\ Called("get")


-----------------------------------------------------------------------------
(* C37: follow_logs *)

\* C37: a failure while the logs of one applied Job or ClowdJobInvocation
\* are collected does not raise out of follow_logs, and follow_logs ends
\* only after every action of the list had its turn.
C37_Original ==
    /\ logs.result \in {"", "ok"}
    /\ logs.result # "" => logs.i > Len(logs.acts)

\* the call for the first action raised: follow_logs ended with the error
\* and the logs of the second, an applied Job, were never asked for
C37_Raised ==
    /\ logs.result = "StatusCodeError"
    /\ logs.i = 1
    /\ ~NotFollowed(logs.acts[2], logs.oc)
    /\ logs.acts[2].kind = "Job"
    /\ logs.acts[2].name \notin logs.files


-----------------------------------------------------------------------------
(* C38: Secret redaction *)

\* the step logged an error about a Secret
SecretErrorLogged ==
    /\ last.log # <<>>
    /\ ri.cells[last.cell].kind = "Secret"

\* the logged message carries the provider's error text
RawTextLogged == \E k \in 1..Len(last.log) : last.log[k] = "str(e)"

\* C38: the error message logged for a Secret never carries the provider's
\* raw error text, when apply() failed and when delete() failed.
C38_Original == SecretErrorLogged => ~RawTextLogged

\* delete() of a Secret raised, and the message is the provider's text
C38_DeleteLeak ==
    /\ SecretErrorLogged
    /\ last.op = "delete"
    /\ last.raised = "StatusCodeError"
    /\ last.log = <<"c1", "ns", "str(e)", "StatusCodeError">>

\* apply() of a Secret raised, and the message is the redacted one
C38_ApplyRedacted ==
    /\ SecretErrorLogged
    /\ last.op = "apply"
    /\ last.raised = "StatusCodeError"
    /\ ~RawTextLogged


-----------------------------------------------------------------------------
(* C39: duplicate bindings *)

\* the turns taken so far
TurnsDone ==
    IF crb.raised = "" \/ crb.result = "" THEN 1..(crb.pos - 1)
    ELSE 1..crb.pos

\* the turns taken for one binding name on one cluster
TurnsFor(cluster, name) ==
    {k \in TurnsDone : /\ crb.turns[k].cluster = cluster
                       /\ crb.turns[k].res.name = name}

\* C39: when add_desired raises ResourceKeyExistsError in
\* fetch_desired_state, the duplicate is ignored: for every binding name a
\* turn was taken for, the desired entries hold exactly one entry, that of
\* the first such turn; no error is registered and none leaves the function;
\* and the turn after the duplicate is taken as after any other.
C39_DuplicateIgnored ==
    /\ [](crb.result # "none" =>
            /\ crb.result \in {"", "ok"}
            /\ ~ri.err
            /\ crb.result = "ok" => crb.pos = Len(crb.turns) + 1
            /\ ~crb.ri_none =>
                 \A k \in TurnsDone :
                   LET t == crb.turns[k]
                       first == CHOOSE j \in TurnsFor(t.cluster, t.res.name) :
                                  \A i \in TurnsFor(t.cluster, t.res.name) :
                                    j <= i
                       held == {e \in 1..Len(crb.desired) :
                                  /\ crb.desired[e].cluster = t.cluster
                                  /\ crb.desired[e].name = t.res.name}
                   IN  /\ Cardinality(held) = 1
                       /\ \A e \in held :
                            crb.desired[e].value = crb.turns[first].res.body)
    /\ [][(crb.result = "" /\ crb.pos <= Len(crb.turns)) =>
            /\ crb'.pos = crb.pos + 1
            /\ crb'.result = ""
            /\ crb'.raised = "ResourceKeyExistsError" =>
                 crb'.desired = crb.desired]_vars

\* a duplicate was just ignored and a turn remains to be taken
C39_Witness ==
    /\ crb.result = ""
    /\ crb.raised = "ResourceKeyExistsError"
    /\ crb.pos <= Len(crb.turns)

\* the binding of a service account has the name of a user's binding added
\* before: the user's is the one entry, and the function returns
C39_UserAndServiceAccount ==
    /\ crb.result = "ok"
    /\ \E k \in 1..Len(crb.turns) : \E e \in 1..Len(crb.desired) :
         /\ crb.turns[k].user = ""
         /\ crb.desired[e].cluster = crb.turns[k].cluster
         /\ crb.desired[e].name = crb.turns[k].res.name
         /\ crb.desired[e].value.subjects[1] = "User"

====
